---- MODULE Spec2Model ----
(***************************************************************************)
(* Model of the streamdeck_ctrl control loop: the brightness controller    *)
(* with its apply workers, the retryable availability tracker, the         *)
(* playerctl backend, the audio output toggle, and the dispatch loop with  *)
(* the hardware backend thread.                                            *)
(***************************************************************************)
EXTENDS Integers, Sequences, FiniteSets, TLC

VARIABLES
    brightness,     \* fields of BrightnessController (controls/brightness.rs)
    workers,        \* apply worker threads and the channel each one owns
    ddc_available,  \* DdcutilBackend.available, shared by all clones
    hw_level,       \* brightness the monitor is set to (VCP 10)
    blast,          \* history: what the last controller call polled and did
    available,      \* RetryableAvailability.available
    retry_after,    \* RetryableAvailability.retry_after (0: no deadline)
    now,            \* now_secs()
    thr,            \* callers of the availability tracker: position and locals
    epoch,          \* history: the backoff window opened by mark_unavailable
    np,             \* PlayerctlBackend: probe installed, last answer, outage
    toggle,         \* AudioToggleController: output states, last icon per button
    pulse,          \* PulseAudio: sinks present and the default sink
    tg,             \* history: what the last toggle call did, last failed switch
    events,         \* hardware event channel, backend thread to dispatch loop
    hwthread,       \* hardware backend thread: running or terminated, and why
    sig,            \* signal thread of main and the shutdown channel
    app,            \* App::run: position, result, and history of its calls
    cmd,            \* hardware command channel: last request, queued or not
    encoder_press_state, \* run_backend: pressed flag per encoder
    button_press_state,  \* run_backend: pressed flag per key
    emitted,        \* events the last handle_input call sent, in order
    input,          \* history: the last input and what was reported before it
    hist,           \* history: last reported states, Pressed minus Released sent
    displays,       \* run_backend: the four encoder display slots
    button_icons,   \* run_backend: the key icon slots
    command_rx,     \* commands queued for process_commands
    render,         \* history: what the last process_commands drained and flushed
    hb,             \* backend thread from start(): position, channel ends, history
    handles,        \* the live HardwareHandle clones
    hcmds,          \* command channel between the handles and that thread
    turn,           \* history: the last on_turn of a press-free run, and the state before it
    served,         \* App's optional controllers and the select arm last served
    timer,          \* fields of TimerController (controls/timer.rs)
    tm,             \* history: the last timer call, the state it found, ticks since the start
    toggled,        \* history: what the last press of the brightness encoder found and asked for
    conn            \* start-up of the backend thread: the devices listed, the serial asked for, the connect attempts

bvars == <<brightness, workers, ddc_available, hw_level, blast>>

avars == <<available, retry_after, now, thr, epoch>>

pvars == <<np>>

tvars == <<toggle, pulse, tg>>

xvars == <<events, hwthread, sig, app, cmd>>

ivars == <<encoder_press_state, button_press_state, emitted, input, hist>>

cvars == <<displays, button_icons, command_rx, render>>

hvars == <<hb, handles, hcmds>>

uvars == <<turn>>

dvars == <<served>>

mvars == <<timer, tm>>

nvars == <<toggled>>

kvars == <<conn>>

vars == <<bvars, avars, pvars, tvars, xvars, ivars, cvars, hvars, uvars, dvars, mvars, nvars, kvars>>

\* What the actions of one subsystem leave alone.
notB == <<avars, pvars, tvars, xvars, ivars, cvars, hvars, uvars, dvars, mvars, nvars, kvars>>

notA == <<bvars, pvars, tvars, xvars, ivars, cvars, hvars, uvars, dvars, mvars, nvars, kvars>>

notP == <<bvars, thr, epoch, tvars, xvars, ivars, cvars, hvars, uvars, dvars, mvars, nvars, kvars>>

notT == <<bvars, avars, pvars, xvars, ivars, cvars, hvars, uvars, dvars, mvars, nvars, kvars>>

notX == <<bvars, avars, pvars, tvars, ivars, cvars, hvars, uvars, dvars, mvars, nvars, kvars>>

notI == <<bvars, avars, pvars, tvars, xvars, cvars, hvars, uvars, dvars, mvars, nvars, kvars>>

notC == <<bvars, avars, pvars, tvars, xvars, ivars, hvars, uvars, dvars, mvars, nvars, kvars>>

notH == <<bvars, avars, pvars, tvars, xvars, ivars, cvars, uvars, dvars, mvars, nvars, kvars>>

notD == <<bvars, avars, pvars, tvars, xvars, ivars, cvars, hvars, uvars, mvars, nvars, kvars>>

notM == <<bvars, avars, pvars, tvars, xvars, ivars, cvars, hvars, uvars, dvars, nvars, kvars>>

\* What a press of the brightness encoder leaves alone beside its history.
notBN == <<avars, pvars, tvars, xvars, ivars, cvars, hvars, uvars, dvars, mvars, kvars>>

\* What the start-up of the backend thread leaves alone beside its history.
notHK == <<bvars, avars, pvars, tvars, xvars, ivars, cvars, uvars, dvars, mvars, nvars>>

----------------------------------------------------------------------------
(* Bounds *)

MaxWorkers == 2

NumThreads == 2

MaxTime == 12

MaxTicks == 30

SinceCap == 2

MaxQueue == 2

KeyCount == 2

MaxCmds == 2

MaxHandles == 2

MaxTurn == 2

MaxSecs == 4

MaxDevices == 2

MaxRetries == 3

----------------------------------------------------------------------------
(* Helpers *)

Min(a, b) == IF a < b THEN a ELSE b

Max(a, b) == IF a > b THEN a ELSE b

Abs(a) == IF a < 0 THEN -a ELSE a

clamp(v, lo, hi) == IF v < lo THEN lo ELSE IF v > hi THEN hi ELSE v

U8_MAX == 255

None == 0

----------------------------------------------------------------------------
(* AppConfig::default, as passed to BrightnessController::new *)

brightness_step_percent == 5

brightness_min == 10

brightness_max == 100

brightness_night == 15

step == Max(brightness_step_percent, 1)

min_level == brightness_min

max_level == Max(brightness_max, min_level + 1)

night_level == clamp(brightness_night, brightness_min, brightness_max)

\* Values the monitor may hold when the program starts.
HwLevels == {5, 60}

\* Encoder deltas delivered to on_turn.
Deltas == {-18, 0, 18}

WorkerIds == 1..MaxWorkers

NoDisplay == [value |-> "none", status |-> "none"]

----------------------------------------------------------------------------
(* BrightnessController *)

\* The progress bar of a display, an f32 in the code: a fraction <<n, d>>.
ZeroProgress == <<0, 1>>

\* The display pushed by push_display: shown level and status line, and the
\* progress (display_level - min_level) / (max_level - min_level).
push_display(c) ==
    LET display_level == IF c.pending_dirty THEN c.pending_level ELSE c.level
        status == IF c.pending_dirty THEN "pending"
                  ELSE IF c.apply_inflight # None THEN "apply"
                  ELSE IF display_level <= night_level THEN "night"
                  ELSE "none"
    IN [c EXCEPT !.disp = [value |-> display_level, status |-> status],
                 !.progress = <<Max(display_level - min_level, 0), max_level - min_level>>,
                 !.pushes = Min(c.pushes + 1, 2)]

push_unavailable_display(c) ==
    [c EXCEPT !.disp = [value |-> "N/A", status |-> "ddc disabled"],
              !.progress = ZeroProgress,
              !.pushes = Min(c.pushes + 1, 2)]

\* try_recv, were an empty channel reported as a disconnected one.
try_recv_empty_is_disconnected(c, wk) ==
    IF c.apply_rx = None THEN [kind |-> "norx"]
    ELSE LET w == wk[c.apply_rx] IN
         IF w.st = "sent" THEN [kind |-> "result", res |-> w.res]
         ELSE [kind |-> "disconnected"]

\* rx.try_recv() on the receiver held in apply_rx.
try_recv(c, wk) ==
    IF c.apply_rx = None THEN [kind |-> "norx"]
    ELSE LET w == wk[c.apply_rx] IN
         IF w.st = "sent" THEN [kind |-> "result", res |-> w.res]
         ELSE IF w.st = "free" THEN [kind |-> "disconnected"]
         ELSE [kind |-> "empty"]

\* poll_apply, were the availability flag not read again after a result.
poll_apply_stale_flag(c, wk, avail) ==
    LET r == try_recv(c, wk) IN
    IF r.kind \in {"norx", "empty"} THEN c
    ELSE LET outcome == IF r.kind = "result" THEN r.res ELSE [ok |-> FALSE, v |-> 0]
             c1 == [c EXCEPT !.apply_rx = None, !.apply_inflight = None]
             c2 == IF outcome.ok
                   THEN [c1 EXCEPT !.level = outcome.v,
                                   !.pending_level = outcome.v,
                                   !.previous_level =
                                       IF outcome.v > night_level THEN outcome.v
                                       ELSE c1.previous_level,
                                   !.polled = "ok", !.reported = outcome.v]
                   ELSE [c1 EXCEPT !.polled = "err"]
         IN IF ~c2.available THEN push_unavailable_display(c2) ELSE push_display(c2)

poll_apply(c, wk, avail) ==
    LET r == try_recv(c, wk) IN
    IF r.kind \in {"norx", "empty"} THEN c
    ELSE LET outcome == IF r.kind = "result" THEN r.res ELSE [ok |-> FALSE, v |-> 0]
             c1 == [c EXCEPT !.apply_rx = None, !.apply_inflight = None]
             c2 == IF outcome.ok
                   THEN [c1 EXCEPT !.level = outcome.v,
                                   !.pending_level = outcome.v,
                                   !.previous_level =
                                       IF outcome.v > night_level THEN outcome.v
                                       ELSE c1.previous_level,
                                   !.polled = "ok", !.reported = outcome.v]
                   ELSE [c1 EXCEPT !.polled = "err"]
             c3 == [c2 EXCEPT !.available = avail]
         IN IF ~c3.available THEN push_unavailable_display(c3) ELSE push_display(c3)

\* A worker slot that holds no thread and no undelivered result.
FreeWorker(wk) == CHOOSE w \in WorkerIds : wk[w].st = "free"

\* enqueue_apply, were the target in flight not remembered.
enqueue_apply_untracked(c, wk, avail, target) ==
    LET c1 == [c EXCEPT !.apply_rx = FreeWorker(wk),
                        !.spawned = target,
                        !.pending_dirty = FALSE,
                        !.pending_level = target,
                        !.level = target,
                        !.previous_level = IF target > night_level THEN target
                                           ELSE c.previous_level,
                        !.available = avail]
    IN push_display(c1)

enqueue_apply(c, wk, avail, target) ==
    LET c1 == [c EXCEPT !.apply_rx = FreeWorker(wk),
                        !.spawned = target,
                        !.apply_inflight = target,
                        !.pending_dirty = FALSE,
                        !.pending_level = target,
                        !.level = target,
                        !.previous_level = IF target > night_level THEN target
                                           ELSE c.previous_level,
                        !.available = avail]
    IN push_display(c1)

\* preview_level, were a turn to commit at once.
preview_level_commits(c, wk, avail, lvl) ==
    LET c1 == [poll_apply(c, wk, avail) EXCEPT !.available = avail] IN
    IF ~c1.available THEN push_unavailable_display(c1)
    ELSE enqueue_apply(c1, wk, avail, clamp(lvl, min_level, max_level))

preview_level(c, wk, avail, lvl) ==
    LET c1 == [poll_apply(c, wk, avail) EXCEPT !.available = avail] IN
    IF ~c1.available THEN push_unavailable_display(c1)
    ELSE LET clamped == clamp(lvl, min_level, max_level)
             c2 == [c1 EXCEPT !.pending_level = clamped,
                              !.pending_dirty = (clamped # c1.level)]
             c3 == IF c2.pending_dirty THEN [c2 EXCEPT !.apply_inflight = None] ELSE c2
         IN push_display(c3)

set_level(c, wk, avail, lvl) ==
    LET c1 == [poll_apply(c, wk, avail) EXCEPT !.available = avail] IN
    IF ~c1.available THEN push_unavailable_display(c1)
    ELSE enqueue_apply(c1, wk, avail, clamp(lvl, min_level, max_level))

on_turn(c, wk, avail, delta) ==
    LET c1 == [poll_apply(c, wk, avail) EXCEPT !.available = avail] IN
    IF ~c1.available THEN push_unavailable_display(c1)
    ELSE IF delta = 0 THEN c1
    ELSE LET magnitude == Min(Abs(delta) * step, U8_MAX)
             delta_value == IF delta > 0 THEN magnitude ELSE -magnitude
         IN preview_level(c1, wk, avail, c1.pending_level + delta_value)

on_press(c, wk, avail) ==
    LET c1 == [poll_apply(c, wk, avail) EXCEPT !.available = avail] IN
    IF ~c1.available THEN push_unavailable_display(c1)
    ELSE IF c1.pending_dirty THEN set_level(c1, wk, avail, c1.pending_level)
    ELSE IF c1.level <= night_level
         THEN set_level(c1, wk, avail, Max(c1.previous_level, night_level + 1))
         ELSE set_level([c1 EXCEPT !.previous_level = c1.level], wk, avail, night_level)

on_release(c, wk, avail) == poll_apply(c, wk, avail)

on_tick(c, wk, avail) == poll_apply(c, wk, avail)

\* The controller at the start of a call: per-call history fields cleared.
Entering(c) == [c EXCEPT !.polled = "none", !.reported = None,
                         !.spawned = None, !.pushes = 0]

\* The worker table after a controller call: a spawned thread takes the slot
\* its receiver names; a result whose receiver was consumed or dropped is gone.
AfterCall(wk, c) ==
    [w \in WorkerIds |->
        IF c.spawned # None /\ c.apply_rx = w
        THEN [st |-> "running", target |-> c.spawned, res |-> [ok |-> TRUE, v |-> 0]]
        ELSE IF wk[w].st = "sent" /\ c.apply_rx # w
        THEN [st |-> "free", target |-> 0, res |-> [ok |-> TRUE, v |-> 0]]
        ELSE wk[w]]

FreeSlot == [st |-> "free", target |-> 0, res |-> [ok |-> TRUE, v |-> 0]]

\* BrightnessController::new followed by refresh_state.
NewController(avail0, read) ==
    LET c0 == [level |-> min_level, pending_level |-> min_level,
               pending_dirty |-> FALSE, apply_inflight |-> None,
               apply_rx |-> None, previous_level |-> max_level,
               available |-> avail0, disp |-> NoDisplay, progress |-> ZeroProgress,
               polled |-> "none", reported |-> None, spawned |-> None,
               pushes |-> 0]
    IN IF ~avail0 THEN push_unavailable_display(c0)
       ELSE LET lvl == clamp(read.v, min_level, max_level)
                c1 == [c0 EXCEPT !.level = lvl, !.pending_level = lvl,
                                 !.previous_level = lvl,
                                 !.available = read.avail]
            IN IF ~c1.available THEN push_unavailable_display(c1)
               ELSE push_display(c1)

\* get_brightness, were a disabled backend to probe ddcutil again.
get_brightness_probes_again(avail, hw, how) ==
    IF how = "fail" THEN [ok |-> TRUE, v |-> 100, avail |-> FALSE]
    ELSE IF how = "overflow" THEN [ok |-> FALSE, v |-> 0, avail |-> avail]
    ELSE [ok |-> TRUE, v |-> Min(hw, 100), avail |-> TRUE]

\* DdcutilBackend::get_brightness: the value read and the flag afterwards.
\* how: "ok" parses the reply, "fail" is a failed or unparsable getvcp,
\* "overflow" is a reply whose digits do not fit u16.
get_brightness(avail, hw, how) ==
    IF ~avail THEN [ok |-> TRUE, v |-> 100, avail |-> avail]
    ELSE IF how = "fail" THEN [ok |-> TRUE, v |-> 100, avail |-> FALSE]
    ELSE IF how = "overflow" THEN [ok |-> FALSE, v |-> 0, avail |-> avail]
    ELSE [ok |-> TRUE, v |-> Min(hw, 100), avail |-> avail]

GetOutcomes == {"ok", "fail", "overflow"}

BInit ==
    /\ hw_level \in HwLevels
    /\ \E a0 \in BOOLEAN, how \in GetOutcomes :
         LET rd == get_brightness(a0, hw_level, how)
             \* refresh_state falls back to max_level when the read errs
             read == IF rd.ok THEN rd ELSE [rd EXCEPT !.v = max_level]
         IN /\ ddc_available = read.avail
            /\ brightness = NewController(a0, read)
    /\ workers = [w \in WorkerIds |-> FreeSlot]
    /\ blast = [op |-> "new", confirmed |-> brightness.level]

\* History kept beside the controller: the call made and the last level a backend read or a successful poll confirmed.
Record(op, c0, c1) ==
    [op |-> op,
     confirmed |-> IF c1.polled = "ok" THEN c1.reported ELSE blast.confirmed]

Call(op, c1) ==
    /\ brightness' = c1
    /\ workers' = AfterCall(workers, c1)
    /\ blast' = Record(op, brightness, c1)
    /\ UNCHANGED <<ddc_available, hw_level, notB>>

OnTurn ==
    \E delta \in Deltas :
        Call("on_turn", on_turn(Entering(brightness), workers, ddc_available, delta))

OnPress ==
    /\ \E w \in WorkerIds : workers[w].st = "free"
    /\ Call("on_press", on_press(Entering(brightness), workers, ddc_available))

OnRelease ==
    Call("on_release", on_release(Entering(brightness), workers, ddc_available))

OnTick ==
    Call("on_tick", on_tick(Entering(brightness), workers, ddc_available))

\* tx.send(result) at the end of the worker thread: delivered if the
\* controller still holds the receiver, lost otherwise.
Send(w, result) ==
    workers' = [workers EXCEPT ![w] =
        IF brightness.apply_rx = w
        THEN [st |-> "sent", target |-> @.target, res |-> result]
        ELSE FreeSlot]

\* set_brightness, first half: the setvcp write.
WorkerSetvcp(w) ==
    /\ workers[w].st = "running"
    /\ LET t == Min(workers[w].target, 100) IN
       \/ /\ ~ddc_available
          /\ Send(w, [ok |-> TRUE, v |-> t])
          /\ UNCHANGED <<ddc_available, hw_level>>
       \/ /\ ddc_available
          /\ hw_level' = t
          /\ workers' = [workers EXCEPT ![w].st = "written"]
          /\ UNCHANGED ddc_available
       \/ /\ ddc_available
          /\ ddc_available' = FALSE
          /\ Send(w, [ok |-> TRUE, v |-> t])
          /\ UNCHANGED hw_level
    /\ UNCHANGED <<brightness, blast, notB>>

\* set_brightness, second half: the re-read through get_brightness.
WorkerGetvcp(w) ==
    /\ workers[w].st = "written"
    /\ \E how \in GetOutcomes :
         LET rd == get_brightness(ddc_available, hw_level, how) IN
         /\ ddc_available' = rd.avail
         /\ Send(w, [ok |-> rd.ok, v |-> rd.v])
    /\ UNCHANGED <<brightness, hw_level, blast, notB>>

\* Deltas of a run of turns with no press: single detents and a spin large
\* enough for the magnitude to reach u8::MAX.
TurnDeltas == (-MaxTurn..MaxTurn) \cup {-52, 52}

UInit == turn = [valid |-> FALSE, delta |-> 0, before |-> brightness, hw |-> hw_level]

UFixed == turn = [valid |-> FALSE, delta |-> 0, before |-> brightness, hw |-> hw_level]

\* on_turn with a delta of D, which records the state it found.
TurnBy(D) ==
    \E delta \in D :
        LET c1 == on_turn(Entering(brightness), workers, ddc_available, delta) IN
        /\ brightness' = c1
        /\ workers' = AfterCall(workers, c1)
        /\ blast' = Record("on_turn", brightness, c1)
        /\ turn' = [valid |-> TRUE, delta |-> delta, before |-> brightness,
                    hw |-> hw_level]
        /\ UNCHANGED <<ddc_available, hw_level, avars, pvars, tvars, xvars, ivars,
                       cvars, hvars, dvars, mvars, nvars, kvars>>

\* on_turn in a run without a press.
Turn == TurnBy(TurnDeltas)

\* on_turn by a user who only dims, MaxTurn detents at a time.
TurnDown == TurnBy({-MaxTurn, 0})

UNext ==
    \/ Turn
    \/ OnTick
    \/ OnRelease

\* on_press by a user who commits only once the last apply has been polled.
PressIdle ==
    /\ brightness.apply_rx = None
    /\ \A w \in WorkerIds : workers[w].st = "free"
    /\ Call("on_press", on_press(Entering(brightness), workers, ddc_available))

\* Dimming turns between such commits, polls and worker steps.
UBNext ==
    \/ TurnDown
    \/ PressIdle
    \/ OnTick
    \/ \E w \in WorkerIds : WorkerSetvcp(w)
    \/ \E w \in WorkerIds : WorkerGetvcp(w)

\* History of presses: whether the last press was a night toggle (backend
\* available, no preview pending after its poll), the confirmed level and
\* the previous level it found after its poll, the target it committed, the
\* level the toggle left (from; None unless it went to night), and the level
\* the press before it had left (prior).
NoPress == [such |-> FALSE, level |-> None, previous |-> None, target |-> None,
            from |-> None, prior |-> None]

NInit == toggled = NoPress

NFixed == toggled = NoPress

\* on_press, which records what it found and what it committed.
NightPress ==
    /\ \E w \in WorkerIds : workers[w].st = "free"
    /\ LET c0 == Entering(brightness)
           polled == [poll_apply(c0, workers, ddc_available) EXCEPT
                         !.available = ddc_available]
           c1 == on_press(c0, workers, ddc_available)
           such == polled.available /\ ~polled.pending_dirty
       IN /\ brightness' = c1
          /\ workers' = AfterCall(workers, c1)
          /\ blast' = Record("on_press", brightness, c1)
          /\ toggled' = [such |-> such,
                         level |-> polled.level,
                         previous |-> polled.previous_level,
                         target |-> c1.spawned,
                         from |-> IF such /\ polled.level > night_level
                                  THEN polled.level ELSE None,
                         prior |-> toggled.from]
    /\ UNCHANGED <<ddc_available, hw_level, notBN>>

\* Presses, polls between them and the worker threads.
NNext ==
    \/ NightPress
    \/ OnTick
    \/ \E w \in WorkerIds : WorkerSetvcp(w)
    \/ \E w \in WorkerIds : WorkerGetvcp(w)

BNext ==
    \/ OnTurn
    \/ OnPress
    \/ OnRelease
    \/ OnTick
    \/ \E w \in WorkerIds : WorkerSetvcp(w)
    \/ \E w \in WorkerIds : WorkerGetvcp(w)

----------------------------------------------------------------------------
(* RetryableAvailability *)

PLAYERCTL_BACKOFF_SECS == 10

backoff_secs == PLAYERCTL_BACKOFF_SECS

Threads == 1..NumThreads

TT == <<TRUE, TRUE>>

TF == <<TRUE, FALSE>>

FF == <<FALSE, FALSE>>

NoReturn == [valid |-> FALSE, res |-> FF, late |-> FALSE, early |-> FALSE, after |-> FALSE]

IdleThread == [pc |-> "idle", op |-> "none", reg |-> 0, late |-> FALSE,
               after |-> FALSE, in |-> FALSE, last |-> NoReturn]

\* The comparison `now_secs() >= retry_after` of try_acquire.
deadline_reached_strict(t, deadline) == t > deadline

deadline_reached(t, deadline) == t >= deadline

\* RetryableAvailability::new(initially_available, backoff_secs)
AInit ==
    /\ available \in BOOLEAN
    /\ retry_after = 0
    /\ now = 1
    /\ thr = [t \in Threads |-> IdleThread]
    /\ epoch = [open |-> FALSE, dl |-> 0, tt |-> 0]

AFixed ==
    /\ available = TRUE
    /\ retry_after = 0
    /\ now = 1
    /\ thr = [t \in Threads |-> IdleThread]
    /\ epoch = [open |-> FALSE, dl |-> 0, tt |-> 0]

BFixed ==
    /\ hw_level = 60
    /\ ddc_available = FALSE
    /\ brightness = NewController(FALSE, [ok |-> TRUE, v |-> 100, avail |-> FALSE])
    /\ workers = [w \in WorkerIds |-> FreeSlot]
    /\ blast = [op |-> "new", confirmed |-> brightness.level]

\* A mark_unavailable call in progress on another thread when a call starts:
\* it no longer runs alone.
Overlapped(th) == IF th.op = "mark_unavailable" THEN [th EXCEPT !.in = FALSE] ELSE th

\* A try_acquire call returns res to thread t.
Return(t, res) ==
    LET counted == thr[t].in /\ epoch.open IN
    /\ thr' = [thr EXCEPT ![t] =
          [IdleThread EXCEPT !.last =
              [valid |-> counted, res |-> res,
               late |-> thr[t].late,
               early |-> now < epoch.dl,
               after |-> thr[t].after]]]
    /\ epoch' = IF counted /\ res = TT
                THEN [epoch EXCEPT !.tt = Min(epoch.tt + 1, 2)]
                ELSE epoch

\* try_acquire: `if self.available.load(Relaxed) { return (true, false) }`
TaLoadAvailable(t) ==
    /\ thr[t].pc = "idle"
    /\ LET me == [IdleThread EXCEPT !.op = "try_acquire", !.in = epoch.open,
                                    !.late = (now >= epoch.dl),
                                    !.after = (epoch.tt > 0)]
           done == [IdleThread EXCEPT !.last =
                       [valid |-> me.in, res |-> TF, late |-> me.late,
                        early |-> now < epoch.dl, after |-> me.after]]
       IN thr' = [u \in Threads |->
                    IF u = t
                    THEN IF available THEN done ELSE [me EXCEPT !.pc = "ta_retry_after"]
                    ELSE Overlapped(thr[u])]
    /\ UNCHANGED <<available, retry_after, now, epoch, notA>>

\* try_acquire: `let retry_after = self.retry_after.load(Relaxed)`
TaLoadRetryAfter(t) ==
    /\ thr[t].pc = "ta_retry_after"
    /\ IF retry_after = 0
       THEN Return(t, FF)
       ELSE /\ thr' = [thr EXCEPT ![t] = [@ EXCEPT !.pc = "ta_now", !.reg = retry_after]]
            /\ UNCHANGED epoch
    /\ UNCHANGED <<available, retry_after, now, notA>>

\* try_acquire: `if now_secs() >= retry_after`
TaCompare(t) ==
    /\ thr[t].pc = "ta_now"
    /\ IF deadline_reached(now, thr[t].reg)
       THEN /\ thr' = [thr EXCEPT ![t] = [@ EXCEPT !.pc = "ma_swap"]]
            /\ UNCHANGED epoch
       ELSE Return(t, FF)
    /\ UNCHANGED <<available, retry_after, now, notA>>

\* A state-changing call on the tracker begins: calls in progress and the
\* returns recorded so far no longer belong to one backoff window.
CloseEpoch(t, me) ==
    /\ thr' = [u \in Threads |->
                 IF u = t THEN me
                 ELSE [thr[u] EXCEPT !.in = FALSE, !.last = NoReturn]]
    /\ epoch' = [epoch EXCEPT !.open = FALSE]

\* mark_available called directly.
MaBegin(t) ==
    /\ thr[t].pc = "idle"
    /\ CloseEpoch(t, [IdleThread EXCEPT !.pc = "ma_swap", !.op = "mark_available"])
    /\ UNCHANGED <<available, retry_after, now, notA>>

\* mark_available: `self.available.swap(true, Relaxed)`
MaSwap(t) ==
    /\ thr[t].pc = "ma_swap"
    /\ available' = TRUE
    /\ thr' = [thr EXCEPT ![t] = [@ EXCEPT !.pc = "ma_store",
                                           !.reg = IF available THEN 1 ELSE 0]]
    /\ UNCHANGED <<retry_after, now, epoch, notA>>

\* mark_available: `self.retry_after.store(0, Relaxed); !was_available`
MaStore(t) ==
    /\ thr[t].pc = "ma_store"
    /\ retry_after' = 0
    /\ IF thr[t].op = "try_acquire"
       THEN Return(t, <<TRUE, thr[t].reg = 0>>)
       ELSE /\ thr' = [thr EXCEPT ![t] = IdleThread]
            /\ UNCHANGED epoch
    /\ UNCHANGED <<available, now, notA>>

\* mark_unavailable: `self.available.swap(false, Relaxed)`
MuSwap(t) ==
    /\ thr[t].pc = "idle"
    /\ now + backoff_secs <= MaxTime
    /\ available' = FALSE
    /\ CloseEpoch(t, [IdleThread EXCEPT !.pc = "mu_now", !.op = "mark_unavailable",
                                        !.in = \A u \in Threads \ {t} : thr[u].pc = "idle"])
    /\ UNCHANGED <<retry_after, now, notA>>

\* mark_unavailable: `now_secs().saturating_add(self.backoff_secs)`
MuNow(t) ==
    /\ thr[t].pc = "mu_now"
    /\ thr' = [thr EXCEPT ![t] = [@ EXCEPT !.pc = "mu_store", !.reg = now + backoff_secs]]
    /\ UNCHANGED <<available, retry_after, now, epoch, notA>>

\* mark_unavailable: `self.retry_after.store(retry_at, Relaxed)`. The window
\* of the claim opens when the call ran with no other call overlapping it.
MuStore(t) ==
    /\ thr[t].pc = "mu_store"
    /\ retry_after' = thr[t].reg
    /\ thr' = [thr EXCEPT ![t] = IdleThread]
    /\ epoch' = IF thr[t].in /\ \A u \in Threads \ {t} : thr[u].pc = "idle"
                THEN [open |-> TRUE, dl |-> thr[t].reg, tt |-> 0]
                ELSE epoch
    /\ UNCHANGED <<available, now, notA>>

\* One second passes.
ClockTick ==
    /\ now < MaxTime
    /\ now' = now + 1
    /\ UNCHANGED <<available, retry_after, thr, epoch, notA>>

ANext ==
    \/ \E t \in Threads : TaLoadAvailable(t)
    \/ \E t \in Threads : TaLoadRetryAfter(t)
    \/ \E t \in Threads : TaCompare(t)
    \/ \E t \in Threads : MaBegin(t)
    \/ \E t \in Threads : MaSwap(t)
    \/ \E t \in Threads : MaStore(t)
    \/ \E t \in Threads : MuSwap(t)
    \/ \E t \in Threads : MuNow(t)
    \/ \E t \in Threads : MuStore(t)
    \/ ClockTick

----------------------------------------------------------------------------
(* RetryableAvailability as one caller sees it, and PlayerctlBackend *)

mark_available(a) ==
    [a |-> [available |-> TRUE, retry_after |-> 0], ret |-> ~a.available]

mark_unavailable(a, t) ==
    [a |-> [available |-> FALSE, retry_after |-> t + backoff_secs], ret |-> a.available]

try_acquire(a, t) ==
    IF a.available THEN [a |-> a, res |-> TF]
    ELSE IF a.retry_after = 0 THEN [a |-> a, res |-> FF]
    ELSE IF deadline_reached(t, a.retry_after)
         THEN [a |-> mark_available(a).a, res |-> <<TRUE, mark_available(a).ret>>]
         ELSE [a |-> a, res |-> FF]

\* should_attempt: the first component of try_acquire.
should_attempt(a, t) == [a |-> try_acquire(a, t).a, ok |-> try_acquire(a, t).res[1]]

\* How an executed `playerctl metadata` can end.
QueryOutcomes == {"spawn_error", "no_player", "failed", "playing"}

\* PlayerctlBackend::now_playing at time t: the tracker afterwards, the
\* playback status returned and whether playerctl was invoked.
now_playing(a, t, installed, outcome) ==
    IF ~installed THEN [a |-> a, status |-> "Unavailable", probed |-> FALSE]
    ELSE LET sa == should_attempt(a, t) IN
         IF ~sa.ok
         THEN \* run_metadata_query bails; the Err arm marks unavailable
              [a |-> mark_unavailable(sa.a, t).a, status |-> "Unavailable", probed |-> FALSE]
         ELSE IF outcome = "spawn_error"
         THEN [a |-> mark_unavailable(sa.a, t).a, status |-> "Unavailable", probed |-> TRUE]
         ELSE IF outcome = "no_player"
         THEN [a |-> mark_available(sa.a).a, status |-> "Stopped", probed |-> TRUE]
         ELSE IF outcome = "failed"
         THEN [a |-> mark_unavailable(sa.a, t).a, status |-> "Unavailable", probed |-> TRUE]
         ELSE [a |-> mark_available(sa.a).a, status |-> "Playing", probed |-> TRUE]

\* PlayerctlBackend::new
PInit ==
    /\ \E installed \in BOOLEAN :
         /\ np = [installed |-> installed, status |-> "none", probed |-> FALSE, outage |-> 0]
         /\ available = installed
    /\ retry_after = 0
    /\ now = 1
    /\ thr = [t \in Threads |-> IdleThread]
    /\ epoch = [open |-> FALSE, dl |-> 0, tt |-> 0]

PFixed == np = [installed |-> FALSE, status |-> "none", probed |-> FALSE, outage |-> 0]

\* The 1-second ticker fires and NowPlayingController::on_tick polls the
\* backend. outage is the time of the failed probe that began the current
\* stretch without a probe (0: none).
NpOnTick ==
    /\ now < MaxTicks
    /\ now' = now + 1
    /\ \E outcome \in QueryOutcomes :
         LET r == now_playing([available |-> available, retry_after |-> retry_after],
                              now', np.installed, outcome)
         IN /\ available' = r.a.available
            /\ retry_after' = r.a.retry_after
            /\ np' = [installed |-> np.installed, status |-> r.status,
                      probed |-> r.probed,
                      outage |-> IF r.probed
                                 THEN IF r.a.available THEN 0 ELSE now'
                                 ELSE np.outage]
    /\ UNCHANGED notP

PNext == NpOnTick

----------------------------------------------------------------------------
(* AudioToggleController over PulseAudioSwitch *)

\* The configured outputs in order: output i is selected by sink id i and
\* sits on button ToggleButtons[i]; outputs 1 and 2 share a button.
ToggleButtons == <<2, 2, 1>>

Outputs == DOMAIN ToggleButtons

\* Button indices the device reports.
Buttons == 0..2

\* button_map: the outputs of a button, in configured order.
button_map(b) == {i \in Outputs : ToggleButtons[i] = b}

SetMin(S) == CHOOSE x \in S : \A y \in S : x <= y

SetMax(S) == CHOOSE x \in S : \A y \in S : x >= y

\* The output after i in its group, wrapping to the first.
NextInGroup(S, i) ==
    IF \E j \in S : j > i THEN SetMin({j \in S : j > i}) ELSE SetMin(S)

\* select_next_in_group, were the active output not looked at.
select_next_in_group_first_available(st, S) ==
    IF \E i \in S : st[i].available
    THEN SetMin({i \in S : st[i].available})
    ELSE SetMin(S)

select_next_in_group(st, S) ==
    IF \E i \in S : st[i].active
    THEN NextInGroup(S, SetMin({i \in S : st[i].active}))
    ELSE IF \E i \in S : st[i].available
         THEN SetMin({i \in S : st[i].available})
         ELSE SetMin(S)

OutputStateDefault == [available |-> FALSE, active |-> FALSE]

\* The states refresh_state computes from list_sinks and current_default_sink.
SinkStates(pa) ==
    [i \in Outputs |-> [available |-> i \in pa.sinks,
                        active |-> (pa.default = i /\ i \in pa.sinks)]]

\* refresh_state, were apply_state to push the icon of every output.
refresh_state_pushes_all(tc, pa, queries_ok) ==
    IF ~queries_ok \/ pa.sinks = {} THEN [tc EXCEPT !.err = TRUE]
    ELSE LET new == SinkStates(pa)
         IN [tc EXCEPT
               !.state = new,
               !.pushed = Outputs,
               !.icon = [b \in Buttons |->
                           IF button_map(b) = {} THEN tc.icon[b]
                           ELSE [out |-> SetMax(button_map(b)),
                                 st |-> new[SetMax(button_map(b))]]]]

\* refresh_state: when the pactl queries succeed, each output whose state
\* changed is stored and its icon pushed to its button, in configured order.
refresh_state(tc, pa, queries_ok) ==
    IF ~queries_ok \/ pa.sinks = {} THEN [tc EXCEPT !.err = TRUE]
    ELSE LET new == SinkStates(pa)
             changed == {i \in Outputs : new[i] # tc.state[i]}
         IN [tc EXCEPT
               !.state = new,
               !.pushed = tc.pushed \cup changed,
               !.icon = [b \in Buttons |->
                           IF button_map(b) \cap changed = {} THEN tc.icon[b]
                           ELSE [out |-> SetMax(button_map(b) \cap changed),
                                 st |-> new[SetMax(button_map(b) \cap changed)]]]]

\* PulseAudioSwitch::set_default_sink for the sink with id i.
set_default_sink(pa, i, pactl_ok) ==
    IF pactl_ok /\ i \in pa.sinks
    THEN [pa |-> [pa EXCEPT !.default = i], ok |-> TRUE]
    ELSE [pa |-> pa, ok |-> FALSE]

\* on_button_pressed: the controller and PulseAudio afterwards; requested is
\* the output whose sink set_default_sink was called for (0: no call).
on_button_pressed(tc, pa, b, pactl_ok, queries_ok) ==
    IF button_map(b) = {}
    THEN [tc |-> tc, pa |-> pa, handled |-> FALSE, requested |-> 0, failed |-> FALSE]
    ELSE LET target == IF Cardinality(button_map(b)) = 1
                       THEN SetMin(button_map(b))
                       ELSE select_next_in_group(tc.state, button_map(b))
             sw == set_default_sink(pa, target, pactl_ok)
         IN [tc |-> [refresh_state(tc, sw.pa, queries_ok) EXCEPT !.err = FALSE],
             pa |-> sw.pa, handled |-> TRUE, requested |-> target,
             failed |-> ~sw.ok]

ToggleEntering(tc) == [tc EXCEPT !.pushed = {}, !.err = FALSE]

\* What PulseAudio can report: some sinks and a default among them (0: none,
\* or a sink that is not configured).
PulseStates == {pa \in [sinks : SUBSET Outputs, default : {0} \cup Outputs] :
                   pa.default \in pa.sinks \cup {0}}

\* AudioToggleController::new: initialise_icons, then refresh_state.
TInit ==
    /\ pulse \in {pa \in PulseStates : pa.sinks # {}}
    /\ toggle = refresh_state(
                   [state |-> [i \in Outputs |-> OutputStateDefault],
                    icon |-> [b \in Buttons |->
                                IF button_map(b) = {}
                                THEN [out |-> 0, st |-> OutputStateDefault]
                                ELSE [out |-> SetMax(button_map(b)),
                                      st |-> OutputStateDefault]],
                    pushed |-> Outputs, err |-> FALSE],
                   pulse, TRUE)
    /\ tg = [op |-> "new", requested |-> 0, handled |-> FALSE, since |-> -1,
             prior |-> -1]

TFixed ==
    /\ pulse = [sinks |-> {}, default |-> 0]
    /\ toggle = [state |-> [i \in Outputs |-> OutputStateDefault],
                 icon |-> [b \in Buttons |-> [out |-> 0, st |-> OutputStateDefault]],
                 pushed |-> {}, err |-> FALSE]
    /\ tg = [op |-> "new", requested |-> 0, handled |-> FALSE, since |-> -1,
             prior |-> -1]

\* A button press reaches the toggle. since is the number of seconds since
\* the last failed set_default_sink (-1: none), prior its value when this
\* press arrived.
TgPressOf(b) ==
    \E pactl_ok \in BOOLEAN, queries_ok \in BOOLEAN :
        LET r == on_button_pressed(ToggleEntering(toggle), pulse, b, pactl_ok, queries_ok) IN
        /\ toggle' = r.tc
        /\ pulse' = r.pa
        /\ tg' = [op |-> "press", requested |-> r.requested, handled |-> r.handled,
                  since |-> IF r.failed THEN 0 ELSE tg.since,
                  prior |-> tg.since]
        /\ UNCHANGED notT

TgPress == \E b \in Buttons : TgPressOf(b)

\* The ticker fires: one second passes and on_tick refreshes the state.
TgTick ==
    /\ \E queries_ok \in BOOLEAN :
         toggle' = refresh_state(ToggleEntering(toggle), pulse, queries_ok)
    /\ tg' = [op |-> "tick", requested |-> 0, handled |-> FALSE,
              since |-> IF tg.since = -1 THEN -1 ELSE Min(tg.since + 1, SinceCap),
              prior |-> tg.since]
    /\ UNCHANGED <<pulse, notT>>

\* A sink appears or disappears, or the default changes, outside the program.
PulseChange ==
    /\ pulse' \in PulseStates \ {pulse}
    /\ UNCHANGED <<toggle, tg, notT>>

TNext ==
    \/ TgPress
    \/ TgTick
    \/ PulseChange

----------------------------------------------------------------------------
(* Dispatch loop (App::run), hardware backend thread and signal thread *)

\* EncoderId::One..Four: volume, brightness, timer, now playing.
Encoders == 1..4

\* Stream Deck Plus keys seen by handle_button_press. Keys with a toggle
\* output are those of button_map; key 3 is bound to nothing.
AppButtons == 0..3

\* Keys with a launcher. Key 1 also carries a toggle output.
LauncherButtons == {0, 1}

\* Events handle_input sends: a twist is never sent with delta 0.
HardwareEvents ==
    [type : {"EncoderTurned"}, id : Encoders, delta : {1}]
        \cup [type : {"EncoderPressed", "EncoderReleased"}, id : Encoders, delta : {0}]
        \cup [type : {"ButtonPressed", "ButtonReleased"}, id : AppButtons, delta : {0}]

\* What a controller call can meet: avail is the backend's is_available(),
\* active a condition of the controller's own state (a worker result
\* waiting, the timer running, the playback state changed), ok the success
\* of the external command the call runs or spawns.
Envs == [avail : BOOLEAN, active : BOOLEAN, ok : BOOLEAN]

\* The effect of one controller call: its Result, whether it sent a command
\* to the hardware backend, the external command it ran and waited for on
\* the calling thread, whether it spawned an apply worker, what made it
\* fail, (buttons) whether the press was consumed, and the optional or
\* ticked controllers called on the way, in order.
Quiet ==
    [res |-> "Ok", cmd |-> FALSE, sync |-> "none", worker |-> FALSE,
     cause |-> "none", handled |-> FALSE, chain |-> <<>>]

\* One entry of the chain: the controller called and what it returned.
Invoked(who, o) == [who |-> who, res |-> o.res, handled |-> o.handled]

\* HardwareHandle::update_encoder / update_button_icon: send on the command
\* channel, an error once the backend thread has dropped the receiver.
update_encoder(open) ==
    [Quiet EXCEPT !.res = IF open THEN "Ok" ELSE "Err",
                  !.cmd = TRUE,
                  !.cause = IF open THEN "none" ELSE "display"]

volume_on_turn(delta, env, open) ==
    IF ~env.avail THEN update_encoder(open)
    ELSE IF delta = 0 THEN Quiet
    ELSE [update_encoder(open) EXCEPT !.sync = "pactl"]

volume_on_press(env, open) ==
    IF ~env.avail THEN update_encoder(open)
    ELSE [update_encoder(open) EXCEPT !.sync = "pactl"]

\* poll_apply pushes a display when a worker result has arrived.
brightness_poll(env, open) == IF env.active THEN update_encoder(open) ELSE Quiet

brightness_on_turn(delta, env, open) ==
    IF brightness_poll(env, open).res = "Err" THEN brightness_poll(env, open)
    ELSE IF ~env.avail THEN update_encoder(open)
    ELSE IF delta = 0 THEN brightness_poll(env, open)
    ELSE update_encoder(open)

brightness_on_press(env, open) ==
    IF brightness_poll(env, open).res = "Err" THEN brightness_poll(env, open)
    ELSE IF ~env.avail THEN update_encoder(open)
    ELSE [update_encoder(open) EXCEPT !.worker = TRUE]

timer_on_turn(delta, env, open) ==
    IF delta = 0 \/ env.active THEN Quiet ELSE update_encoder(open)

timer_on_press(open) == update_encoder(open)

timer_on_tick(env, open) == IF env.active THEN update_encoder(open) ELSE Quiet

\* refresh_display: now_playing() runs playerctl when the backend is due an
\* attempt; the display is pushed when the state changed.
refresh_display(env, open) ==
    [(IF env.active THEN update_encoder(open) ELSE Quiet)
        EXCEPT !.sync = IF env.avail THEN "playerctl" ELSE "none"]

\* AudioToggleController::on_button_pressed: set_default_sink and the
\* refresh run pactl; a failed icon push is logged by refresh_state's caller.
toggle_on_button_pressed(index, env, open) ==
    IF index \notin Buttons \/ button_map(index) = {} THEN Quiet
    ELSE [Quiet EXCEPT !.sync = "pactl", !.cmd = env.active, !.handled = TRUE]

toggle_on_tick(env, open) ==
    [(IF env.active THEN update_encoder(open) ELSE Quiet) EXCEPT !.sync = "pactl"]

\* LauncherController::on_button_pressed: activate() spawns gtk-launch or
\* the Exec command and fails when neither can be started.
launcher_on_button_pressed(index, env) ==
    IF index \notin LauncherButtons THEN Quiet
    ELSE IF env.ok THEN [Quiet EXCEPT !.handled = TRUE]
    ELSE [Quiet EXCEPT !.res = "Err", !.cause = "backend"]

handle_turn(e, env, open, cfg) ==
    CASE e.id = 1 -> volume_on_turn(e.delta, env, open)
      [] e.id = 2 -> brightness_on_turn(e.delta, env, open)
      [] e.id = 3 -> timer_on_turn(e.delta, env, open)
      [] e.id = 4 -> IF cfg.now_playing THEN refresh_display(env, open) ELSE Quiet

handle_press(e, env, open) ==
    CASE e.id = 1 -> volume_on_press(env, open)
      [] e.id = 2 -> brightness_on_press(env, open)
      [] e.id = 3 -> timer_on_press(open)
      [] e.id = 4 -> Quiet

handle_release(e, env, open) ==
    CASE e.id = 2 -> brightness_poll(env, open)
      [] OTHER -> Quiet

\* The toggle is asked first; the launchers only when it did not consume
\* the press. Either error is returned with `?`.
\* The optional controllers App::new built from the configuration file.
Config == [audio_toggle |-> TRUE, now_playing |-> TRUE, launchers |-> TRUE]

\* Every outcome of App::new: each optional controller is Some or None.
Configs == [audio_toggle : BOOLEAN, now_playing : BOOLEAN, launchers : BOOLEAN]

\* handle_button_press, were the launchers offered every press.
handle_button_press_offers_all(e, env, open, cfg) ==
    LET t == IF cfg.audio_toggle
             THEN LET o == toggle_on_button_pressed(e.id, env, open) IN
                  [o EXCEPT !.chain = <<Invoked("audio_toggle", o)>>]
             ELSE Quiet
        l == IF cfg.launchers
             THEN LET o == launcher_on_button_pressed(e.id, env) IN
                  [o EXCEPT !.chain = Append(t.chain, Invoked("launchers", o))]
             ELSE [Quiet EXCEPT !.chain = t.chain]
    IN  IF t.handled THEN [t EXCEPT !.chain = l.chain] ELSE l

handle_button_press(e, env, open, cfg) ==
    LET t == IF cfg.audio_toggle
             THEN LET o == toggle_on_button_pressed(e.id, env, open) IN
                  [o EXCEPT !.chain = <<Invoked("audio_toggle", o)>>]
             ELSE Quiet
        l == IF cfg.launchers
             THEN LET o == launcher_on_button_pressed(e.id, env) IN
                  [o EXCEPT !.chain = Append(t.chain, Invoked("launchers", o))]
             ELSE [Quiet EXCEPT !.chain = t.chain]
    IN  IF t.handled THEN t ELSE l

handle_event(e, env, open, cfg) ==
    CASE e.type = "EncoderTurned" -> handle_turn(e, env, open, cfg)
      [] e.type = "EncoderPressed" -> handle_press(e, env, open)
      [] e.type = "EncoderReleased" -> handle_release(e, env, open)
      [] e.type = "ButtonPressed" -> handle_button_press(e, env, open, cfg)
      [] e.type = "ButtonReleased" -> Quiet

\* The ticker arm, were an error of the timer's on_tick to end the arm.
on_ticks_until_error(env, open, cfg) ==
    LET t == timer_on_tick(env, open)
        b == brightness_poll(env, open)
        a == IF cfg.audio_toggle THEN toggle_on_tick(env, open) ELSE Quiet
        n == IF cfg.now_playing THEN refresh_display(env, open) ELSE Quiet
    IN  IF t.res = "Err"
        THEN [Quiet EXCEPT !.cmd = t.cmd, !.chain = <<Invoked("timer", t)>>]
        ELSE [Quiet EXCEPT !.cmd = t.cmd \/ b.cmd \/ a.cmd \/ n.cmd,
                           !.sync = IF a.sync # "none" THEN a.sync ELSE n.sync,
                           !.chain = <<Invoked("timer", t), Invoked("brightness", b)>>
                               \o (IF cfg.audio_toggle
                                   THEN <<Invoked("audio_toggle", a)>> ELSE <<>>)
                               \o (IF cfg.now_playing
                                   THEN <<Invoked("now_playing", n)>> ELSE <<>>)]

\* The ticker arm of the select: on_tick of the timer, of the brightness
\* controller and of the optional controllers that exist, in that order;
\* each error is logged and the next call is made.
on_ticks(env, open, cfg) ==
    LET t == timer_on_tick(env, open)
        b == brightness_poll(env, open)
        a == IF cfg.audio_toggle THEN toggle_on_tick(env, open) ELSE Quiet
        n == IF cfg.now_playing THEN refresh_display(env, open) ELSE Quiet
    IN  [Quiet EXCEPT !.cmd = t.cmd \/ b.cmd \/ a.cmd \/ n.cmd,
                      !.sync = IF a.sync # "none" THEN a.sync ELSE n.sync,
                      !.chain = <<Invoked("timer", t), Invoked("brightness", b)>>
                          \o (IF cfg.audio_toggle
                              THEN <<Invoked("audio_toggle", a)>> ELSE <<>>)
                          \o (IF cfg.now_playing
                              THEN <<Invoked("now_playing", n)>> ELSE <<>>)]

\* A command sent by a controller call: the last request made on the
\* command channel, queued only while the backend thread holds the receiver.
Issue(c, o, open) ==
    IF o.cmd THEN [last |-> "update", pending |-> c.pending \/ open] ELSE c

\* HardwareHandle::clear_all_displays: one request to the backend thread.
clear_all_displays(c, open) == [last |-> "clear", pending |-> c.pending \/ open]

\* What the loop remembers of the controller call it just made.
Called(a, o) ==
    [a EXCEPT !.sync = o.sync, !.commanded = @ \/ o.cmd]

\* App::run after the loop, were the closure's error returned with `?`.
run_return_on_error(a, c, result, route, cause, hw) ==
    [app |-> [a EXCEPT !.pc = "returned", !.result = result, !.route = route,
                       !.cause = cause, !.cleared = (result = "Ok"),
                       !.hw_at_exit = hw.cause],
     cmd |-> IF result = "Ok" THEN clear_all_displays(c, hw.st = "running") ELSE c]

\* App::run after the loop: the clear request is made whatever the closure
\* returned, then the closure's result is returned.
run_return(a, c, result, route, cause, hw) ==
    [app |-> [a EXCEPT !.pc = "returned", !.result = result, !.route = route,
                       !.cause = cause, !.cleared = TRUE,
                       !.hw_at_exit = hw.cause],
     cmd |-> clear_all_displays(c, hw.st = "running")]

XInit ==
    /\ events = <<>>
    /\ hwthread = [st |-> "running", cause |-> "none"]
    /\ sig = "waiting"
    /\ app = [pc |-> "loop", result |-> "none", route |-> "none", cause |-> "none",
              sync |-> "none", commanded |-> FALSE, cleared |-> FALSE,
              hw_at_exit |-> "none"]
    /\ cmd = [last |-> "none", pending |-> FALSE]

XFixed ==
    /\ events = <<>>
    /\ hwthread = [st |-> "running", cause |-> "none"]
    /\ sig = "waiting"
    /\ app = [pc |-> "loop", result |-> "none", route |-> "none", cause |-> "none",
              sync |-> "none", commanded |-> FALSE, cleared |-> FALSE,
              hw_at_exit |-> "none"]
    /\ cmd = [last |-> "none", pending |-> FALSE]

\* One iteration of run_backend's loop: process_commands drains the command
\* queue and flushes it to the device, then read_input returns an input, no
\* data, a malformed report or an I/O error. An error of the flush or of the
\* read ends the thread, which drops the event sender and the command
\* receiver.
HwLoop ==
    /\ hwthread.st = "running"
    /\ \E read \in {"input", "no_data", "bad_data", "hid_error", "flush_error"} :
         CASE read = "flush_error" ->
                /\ cmd.pending
                /\ hwthread' = [st |-> "terminated", cause |-> "write"]
                /\ cmd' = [cmd EXCEPT !.pending = FALSE]
                /\ UNCHANGED events
           [] read = "hid_error" ->
                /\ hwthread' = [st |-> "terminated", cause |-> "read"]
                /\ cmd' = [cmd EXCEPT !.pending = FALSE]
                /\ UNCHANGED events
           [] read = "input" ->
                /\ cmd' = [cmd EXCEPT !.pending = FALSE]
                /\ \E e \in HardwareEvents :
                     IF app.pc = "dropped" THEN UNCHANGED events
                     ELSE Len(events) < MaxQueue /\ events' = Append(events, e)
                /\ UNCHANGED hwthread
           [] OTHER ->
                /\ cmd' = [cmd EXCEPT !.pending = FALSE]
                /\ UNCHANGED <<events, hwthread>>
    /\ UNCHANGED <<sig, app, notX>>

\* select! takes an event: handle_event(event)?.
AppEvent ==
    /\ app.pc = "loop"
    /\ events # <<>>
    /\ \E env \in Envs :
         LET open == hwthread.st = "running"
             o == handle_event(Head(events), env, open, Config)
             a == Called(app, o)
             c == Issue(cmd, o, open)
             r == run_return(a, c, "Err", "handler_error", o.cause, hwthread)
         IN  IF o.res = "Err"
             THEN app' = r.app /\ cmd' = r.cmd
             ELSE app' = a /\ cmd' = c
    /\ events' = Tail(events)
    /\ UNCHANGED <<hwthread, sig, notX>>

\* select! finds the event channel empty and disconnected.
AppClosed ==
    /\ app.pc = "loop"
    /\ events = <<>>
    /\ hwthread.st = "terminated"
    /\ LET r == run_return(app, cmd, "Ok", "closed", "none", hwthread) IN
         app' = r.app /\ cmd' = r.cmd
    /\ UNCHANGED <<events, hwthread, sig, notX>>

\* select! takes a tick.
AppTick ==
    /\ app.pc = "loop"
    /\ \E env \in Envs :
         LET open == hwthread.st = "running"
             o == on_ticks(env, open, Config)
         IN  app' = Called(app, o) /\ cmd' = Issue(cmd, o, open)
    /\ UNCHANGED <<events, hwthread, sig, notX>>

\* select! takes the shutdown message.
AppShutdown ==
    /\ app.pc = "loop"
    /\ sig = "sent"
    /\ LET r == run_return(app, cmd, "Ok", "shutdown", "none", hwthread) IN
         app' = r.app /\ cmd' = r.cmd
    /\ sig' = "done"
    /\ UNCHANGED <<events, hwthread, notX>>

\* The signal thread gets a termination signal and asks for the clear.
SignalReceived ==
    /\ sig = "waiting"
    /\ app.pc # "dropped"
    /\ sig' = "cleared"
    /\ cmd' = clear_all_displays(cmd, hwthread.st = "running")
    /\ UNCHANGED <<events, hwthread, app, notX>>

\* The signal thread sends the shutdown message and ends.
SignalSend ==
    /\ sig = "cleared"
    /\ sig' = "sent"
    /\ UNCHANGED <<events, hwthread, app, cmd, notX>>

\* main after run: the signal iterator is closed, the signal thread joined
\* and the App dropped, which asks for the clear once more and drops the
\* event receiver.
AppDrop ==
    /\ app.pc = "returned"
    /\ sig # "cleared"
    /\ sig' = "done"
    /\ app' = [app EXCEPT !.pc = "dropped"]
    /\ cmd' = clear_all_displays(cmd, hwthread.st = "running")
    /\ events' = <<>>
    /\ UNCHANGED <<hwthread, notX>>

XNext ==
    \/ HwLoop
    \/ AppEvent
    \/ AppClosed
    \/ AppTick
    \/ AppShutdown
    \/ SignalReceived
    \/ SignalSend
    \/ AppDrop

----------------------------------------------------------------------------
(* The arms of App::run's select, for every set of optional controllers *)

\* The select arm just served and what its calls did.
NoCall ==
    [type |-> "none", chain |-> <<>>, handled |-> FALSE, cmd |-> FALSE,
     worker |-> FALSE, sync |-> "none"]

Served(type, o) ==
    [type |-> type, chain |-> o.chain, handled |-> o.handled, cmd |-> o.cmd,
     worker |-> o.worker, sync |-> o.sync]

DInit ==
    \E cfg \in Configs : served = [cfg |-> cfg, pc |-> "loop", last |-> NoCall]

DFixed == served = [cfg |-> Config, pc |-> "loop", last |-> NoCall]

\* recv(self.events) -> Ok(event): handle_event(event)?, whose error ends
\* the loop. The backend thread may have ended since it sent the event.
ServeEvent ==
    /\ served.pc = "loop"
    /\ \E e \in HardwareEvents, env \in Envs, open \in BOOLEAN :
         LET o == handle_event(e, env, open, served.cfg) IN
         served' = [served EXCEPT !.last = Served(e.type, o),
                                  !.pc = IF o.res = "Err" THEN "returned" ELSE "loop"]
    /\ UNCHANGED notD

\* recv(ticker): the on_tick calls; nothing in the arm returns or breaks.
ServeTick ==
    /\ served.pc = "loop"
    /\ \E env \in Envs, open \in BOOLEAN :
         served' = [served EXCEPT !.last = Served("Tick", on_ticks(env, open, served.cfg))]
    /\ UNCHANGED notD

DNext ==
    \/ ServeEvent
    \/ ServeTick


----------------------------------------------------------------------------
(* Hardware backend: handle_input *)

\* encoder_press_state is [bool; 4].
NumEncoders == 4

\* Reports carry one more or one fewer entry than the state buffers hold.
ButtonReports == UNION {[1..n -> BOOLEAN] : n \in 1..(KeyCount + 1)}

EncoderReports == UNION {[1..n -> BOOLEAN] : n \in (NumEncoders - 1)..(NumEncoders + 1)}

\* A twist delta as the byte of the report: 0, +3, -3 and -128.
I8Bytes == {0, 3, 253, 128}

TwistReports == UNION {[1..n -> I8Bytes] : n \in (NumEncoders - 1)..(NumEncoders + 1)}

\* The value of an i8 given as its byte.
i8_value(b) == IF b >= 128 THEN b - 256 ELSE b

\* A 32-bit word as <<upper 24 bits, low byte>>.
i32_from_i8_zero_extended(b) == <<0, b>>

\* i32::from(i8): sign extension.
i32_from_i8(b) == <<IF b >= 128 THEN 2^24 - 1 ELSE 0, b>>

\* The value of an i32 given as its word.
i32_value(w) == (IF w[1] >= 2^23 THEN w[1] - 2^24 ELSE w[1]) * 256 + w[2]

\* Vec::resize(n, false) on a buffer shorter than n.
resize(st, n) == [i \in 1..n |-> IF i <= Len(st) THEN st[i] ELSE FALSE]

\* The comparison, were an event sent for every pressed entry.
changed_when_pressed(previous, state) == state

\* *previous != *state
changed(previous, state) == previous # state

\* The ButtonStateChange arm from entry i on: st is button_state, out the
\* events sent so far. Key i of the model is index i-1 of the code.
RECURSIVE button_state_change(_, _, _, _)
button_state_change(states, st, out, i) ==
    IF i > Len(states) THEN [st |-> st, out |-> out]
    ELSE LET st1 == IF i > Len(st) THEN resize(st, Len(states)) ELSE st IN
         IF changed(st1[i], states[i])
         THEN button_state_change(states, [st1 EXCEPT ![i] = states[i]],
                  Append(out, [type |-> IF states[i] THEN "ButtonPressed"
                                        ELSE "ButtonReleased",
                               id |-> i - 1, delta |-> 0]),
                  i + 1)
         ELSE button_state_change(states, st1, out, i + 1)

\* The EncoderStateChange arm: the first four entries only.
RECURSIVE encoder_state_change(_, _, _, _)
encoder_state_change(states, st, out, i) ==
    IF i > Min(Len(states), Len(st)) THEN [st |-> st, out |-> out]
    ELSE IF changed(st[i], states[i])
         THEN encoder_state_change(states, [st EXCEPT ![i] = states[i]],
                  Append(out, [type |-> IF states[i] THEN "EncoderPressed"
                                        ELSE "EncoderReleased",
                               id |-> i, delta |-> 0]),
                  i + 1)
         ELSE encoder_state_change(states, st, out, i + 1)

\* The EncoderTwist arm: one event per nonzero delta of the first four.
RECURSIVE encoder_twist(_, _)
encoder_twist(deltas, i) ==
    IF i > Min(Len(deltas), NumEncoders) THEN <<>>
    ELSE (IF deltas[i] = 0 THEN <<>>
          ELSE <<[type |-> "EncoderTurned", id |-> i,
                  delta |-> i32_value(i32_from_i8(deltas[i]))]>>)
         \o encoder_twist(deltas, i + 1)

\* History: the state last reported for every key and encoder, and the
\* number of Pressed events sent minus the number of Released events sent.
KeyIds == 1..(KeyCount + 1)

EncIds == 1..NumEncoders

Reported(held, report, n) ==
    [i \in DOMAIN held |-> IF i <= Min(Len(report), n) THEN report[i] ELSE held[i]]

Count(out, types, id) ==
    Cardinality({k \in 1..Len(out) : out[k].type \in types /\ out[k].id = id})

Balanced(bal, out, pressed, released) ==
    [i \in DOMAIN bal |->
        bal[i] + Count(out, {pressed}, IF pressed = "ButtonPressed" THEN i - 1 ELSE i)
               - Count(out, {released}, IF pressed = "ButtonPressed" THEN i - 1 ELSE i)]

IInit ==
    /\ encoder_press_state = [i \in 1..NumEncoders |-> FALSE]
    /\ button_press_state = [i \in 1..KeyCount |-> FALSE]
    /\ emitted = <<>>
    /\ input = [kind |-> "none", report |-> <<>>, res |-> "Ok",
                keys |-> [i \in KeyIds |-> FALSE], encs |-> [i \in EncIds |-> FALSE]]
    /\ hist = [keys |-> [i \in KeyIds |-> FALSE], encs |-> [i \in EncIds |-> FALSE],
               key_bal |-> [i \in KeyIds |-> 0], enc_bal |-> [i \in EncIds |-> 0]]

IFixed ==
    /\ encoder_press_state = [i \in 1..NumEncoders |-> FALSE]
    /\ button_press_state = [i \in 1..KeyCount |-> FALSE]
    /\ emitted = <<>>
    /\ input = [kind |-> "none", report |-> <<>>, res |-> "Ok",
                keys |-> [i \in KeyIds |-> FALSE], encs |-> [i \in EncIds |-> FALSE]]
    /\ hist = [keys |-> [i \in KeyIds |-> FALSE], encs |-> [i \in EncIds |-> FALSE],
               key_bal |-> [i \in KeyIds |-> 0], enc_bal |-> [i \in EncIds |-> 0]]

\* What every call of handle_input records: the report and the states
\* reported before it. The loop reads on only while no read has ended it.
Input(kind, report) ==
    /\ input.res = "Ok"
    /\ input' = [kind |-> kind, report |-> report, res |-> "Ok",
                 keys |-> hist.keys, encs |-> hist.encs]

InputButtonStateChange ==
    \E states \in ButtonReports :
        LET r == button_state_change(states, button_press_state, <<>>, 1) IN
        /\ button_press_state' = r.st
        /\ emitted' = r.out
        /\ Input("ButtonStateChange", states)
        /\ hist' = [hist EXCEPT
                      !.keys = Reported(@, states, KeyCount + 1),
                      !.key_bal = Balanced(@, r.out, "ButtonPressed", "ButtonReleased")]
        /\ UNCHANGED <<encoder_press_state, notI>>

InputEncoderStateChange ==
    \E states \in EncoderReports :
        LET r == encoder_state_change(states, encoder_press_state, <<>>, 1) IN
        /\ encoder_press_state' = r.st
        /\ emitted' = r.out
        /\ Input("EncoderStateChange", states)
        /\ hist' = [hist EXCEPT
                      !.encs = Reported(@, states, NumEncoders),
                      !.enc_bal = Balanced(@, r.out, "EncoderPressed", "EncoderReleased")]
        /\ UNCHANGED <<button_press_state, notI>>

InputEncoderTwist ==
    \E deltas \in TwistReports :
        /\ emitted' = encoder_twist(deltas, 1)
        /\ Input("EncoderTwist", deltas)
        /\ UNCHANGED <<encoder_press_state, button_press_state, hist, notI>>

\* NoData, and the inputs handle_input only logs (touch screen reports).
InputOther ==
    \E kind \in {"NoData", "other"} :
        /\ emitted' = <<>>
        /\ Input(kind, <<>>)
        /\ UNCHANGED <<encoder_press_state, button_press_state, hist, notI>>

\* The errors read_input returns.
StreamDeckErrors == {"HidError", "BadData", "other"}

\* handle_input_error, were a malformed report as fatal as an I/O error.
handle_input_error_all_fatal(err) == "Err"

\* handle_input_error: only a malformed report is survived.
handle_input_error(err) == IF err = "BadData" THEN "Ok" ELSE "Err"

\* read_input fails: handle_input_error(err)?, which ends run_backend's
\* loop when it returns the error.
InputError ==
    /\ input.res = "Ok"
    /\ \E err \in StreamDeckErrors :
         input' = [kind |-> err, report |-> <<>>, res |-> handle_input_error(err),
                   keys |-> hist.keys, encs |-> hist.encs]
    /\ emitted' = <<>>
    /\ UNCHANGED <<encoder_press_state, button_press_state, hist, notI>>

\* Reports of keys and encoder pushes, which go through the press states.
INext ==
    \/ InputButtonStateChange
    \/ InputEncoderStateChange
    \/ InputOther
    \/ InputError

\* Reports of encoder rotation, which read no state.
TwistNext ==
    \/ InputEncoderTwist
    \/ InputOther

----------------------------------------------------------------------------
(* Hardware backend: process_commands *)

\* The content of an encoder display slot: 0 is None, 1 a display.
DisplayPayloads == {1}

\* The content of a key icon slot: 0 is None, 1 an icon.
IconPayloads == {0, 1}

\* Commands a HardwareHandle sends; a key index may lie past the device's
\* keys.
HardwareCommands ==
    [type : {"UpdateEncoderDisplay"}, slot : EncIds, payload : DisplayPayloads]
        \cup [type : {"UpdateButtonIcon"}, slot : KeyIds, payload : IconPayloads]

\* button_icons.get_mut, were an index past the end to reach the last slot.
get_mut_saturating(icons, slot) ==
    IF slot \in DOMAIN icons THEN slot ELSE Len(icons)

\* button_icons.get_mut(index): the slot of the key, or None for an index
\* that is not below the key count. Slots count from 1, indices from 0.
get_mut(icons, slot) ==
    IF slot \in DOMAIN icons THEN slot ELSE None

\* One turn of the while-let loop, were a slot written only while empty.
apply_command_first_wins(s, c) ==
    IF c.type = "UpdateEncoderDisplay"
    THEN [s EXCEPT !.displays[c.slot] = IF @ = 0 THEN c.payload ELSE @,
                   !.displays_changed = TRUE,
                   !.same = @ /\ s.displays[c.slot] = c.payload]
    ELSE IF c.slot <= Len(s.button_icons)
    THEN [s EXCEPT !.button_icons[c.slot] = IF @ = 0 THEN c.payload ELSE @,
                   !.buttons_changed = Append(@, c.slot),
                   !.same = @ /\ s.button_icons[c.slot] = c.payload]
    ELSE [s EXCEPT !.same = FALSE]

\* One turn of the while-let loop of process_commands on command c. s holds
\* the slots, displays_changed and buttons_changed, and, as history, whether
\* every command so far carried what its slot already held.
apply_command(s, c) ==
    IF c.type = "UpdateEncoderDisplay"
    THEN [s EXCEPT !.displays[c.slot] = c.payload,
                   !.displays_changed = TRUE,
                   !.same = @ /\ s.displays[c.slot] = c.payload]
    ELSE LET slot == get_mut(s.button_icons, c.slot) IN
         IF slot # None
         THEN [s EXCEPT !.button_icons[slot] = c.payload,
                        !.buttons_changed = Append(@, c.slot),
                        !.same = @ /\ s.button_icons[slot] = c.payload]
         ELSE [s EXCEPT !.same = FALSE]

\* The while-let loop of process_commands over the queued commands q, in
\* arrival order.
RECURSIVE drain(_, _)
drain(q, s) ==
    IF q = <<>> THEN s ELSE drain(Tail(q), apply_command(s, Head(q)))

\* The flush calls after the loop, were each updated key pushed by itself.
flush_calls_per_key(s) ==
    [strips |-> IF s.displays_changed THEN 1 ELSE 0,
     batches |-> [i \in DOMAIN s.buttons_changed |-> <<s.buttons_changed[i]>>]]

\* The calls process_commands makes after the loop: flush_strip when
\* displays_changed, flush_buttons with buttons_changed when it is not
\* empty.
flush_calls(s) ==
    [strips |-> IF s.displays_changed THEN 1 ELSE 0,
     batches |-> IF s.buttons_changed # <<>> THEN <<s.buttons_changed>> ELSE <<>>]

NoRender ==
    [valid |-> FALSE, res |-> "Ok", strip |-> FALSE, buttons |-> <<>>,
     drained |-> 0, same |-> TRUE, queue |-> <<>>, strips |-> 0,
     batches |-> <<>>]

CInit ==
    /\ displays = [i \in EncIds |-> 0]
    /\ button_icons = [i \in 1..KeyCount |-> 0]
    /\ command_rx = <<>>
    /\ render = NoRender

CFixed ==
    /\ displays = [i \in EncIds |-> 0]
    /\ button_icons = [i \in 1..KeyCount |-> 0]
    /\ command_rx = <<>>
    /\ render = NoRender

\* A HardwareHandle sends a command of C while the backend thread runs.
Enqueue(C) ==
    /\ render.res = "Ok"
    /\ Len(command_rx) < MaxCmds
    /\ \E c \in C : command_rx' = Append(command_rx, c)
    /\ render' = NoRender
    /\ UNCHANGED <<displays, button_icons, notC>>

SendCommand == Enqueue(HardwareCommands)

\* Commands of controllers that rewrite the same targets: two displays for
\* encoder One, one for encoder Two, an icon or none for the first key, and
\* an icon for an index past the device's keys.
MergeCommands ==
    [type : {"UpdateEncoderDisplay"}, slot : {1}, payload : {1, 2}]
        \cup [type : {"UpdateEncoderDisplay"}, slot : {2}, payload : {1}]
        \cup [type : {"UpdateButtonIcon"}, slot : {1}, payload : {0, 1}]
        \cup [type : {"UpdateButtonIcon"}, slot : {KeyCount + 1}, payload : {1}]

SendMergeCommand == Enqueue(MergeCommands)

\* process_commands: drain the queue, then flush_strip if a display command
\* was drained and flush_buttons if a key command was; either may fail, and
\* a failure of flush_strip is returned before flush_buttons is reached.
ProcessCommands ==
    /\ render.res = "Ok"
    /\ \E strip_ok \in BOOLEAN, buttons_ok \in BOOLEAN :
         LET s == drain(command_rx,
                        [displays |-> displays, button_icons |-> button_icons,
                         displays_changed |-> FALSE, buttons_changed |-> <<>>,
                         same |-> TRUE])
             f == flush_calls(s)
             strip_failed == s.displays_changed /\ ~strip_ok
             buttons_failed == ~strip_failed /\ s.buttons_changed # <<>> /\ ~buttons_ok
         IN  /\ displays' = s.displays
             /\ button_icons' = s.button_icons
             /\ render' = [valid |-> TRUE,
                           res |-> IF strip_failed \/ buttons_failed THEN "Err" ELSE "Ok",
                           strip |-> s.displays_changed,
                           buttons |-> IF strip_failed THEN <<>> ELSE s.buttons_changed,
                           drained |-> Len(command_rx),
                           same |-> s.same,
                           queue |-> command_rx,
                           strips |-> f.strips,
                           batches |-> IF strip_failed THEN <<>> ELSE f.batches]
    /\ command_rx' = <<>>
    /\ UNCHANGED notC

CNext ==
    \/ SendCommand
    \/ ProcessCommands

MergeNext ==
    \/ SendMergeCommand
    \/ ProcessCommands

----------------------------------------------------------------------------
(* Hardware backend: start-up and headless mode *)

HandleIds == 1..MaxHandles

\* The backend thread when start() has spawned it: both channel ends held,
\* nothing sent. mode records which loop the thread entered.
BackendStarted ==
    [pc |-> "enumerate", mode |-> "none", event_tx |-> TRUE, command_rx |-> TRUE,
     send_err |-> FALSE, events_sent |-> FALSE, discarded |-> FALSE,
     rendered |-> FALSE]

\* The thread returns: its event sender and command receiver are dropped
\* and what was queued is lost with the channel.
Returns(b) == [b EXCEPT !.pc = "done", !.event_tx = FALSE, !.command_rx = FALSE]

\* command_rx.iter() ends, were it to end as soon as the queue is empty.
iter_ends_when_empty(q, live) == q = <<>>

\* command_rx.iter() ends when the queue is empty and every sender, that is
\* every HardwareHandle, has been dropped.
iter_ends(q, live) == q = <<>> /\ live = {}

HInit ==
    /\ hb = BackendStarted
    /\ handles = {1}
    /\ hcmds = <<>>

HFixed ==
    /\ hb = BackendStarted
    /\ handles = {1}
    /\ hcmds = <<>>

\* run_backend up to select_device: hidapi cannot be initialised (the
\* thread returns the error), no device matches (headless), or one does.
EnumerateAs(found) ==
    /\ hb.pc = "enumerate"
    /\ hb' = CASE found = "hidapi_error" -> Returns(hb)
               [] found = "no_device" -> [hb EXCEPT !.pc = "headless", !.mode = "headless"]
               [] found = "device" -> [hb EXCEPT !.pc = "connect"]
    /\ hcmds' = IF found = "hidapi_error" THEN <<>> ELSE hcmds
    /\ UNCHANGED handles

Enumerate ==
    /\ \E found \in {"hidapi_error", "no_device", "device"} : EnumerateAs(found)
    /\ UNCHANGED notH

\* One round of the connect loop: connected (the initial set_brightness and
\* flush_strip may still fail), permission denied (sleep and retry), or
\* another error (headless).
ConnectAs(how) ==
    /\ hb.pc = "connect"
    /\ hb' = CASE how = "ok" -> [hb EXCEPT !.pc = "device", !.mode = "device"]
               [] how = "setup_error" -> Returns(hb)
               [] how = "permission_denied" -> hb
               [] how = "error" -> [hb EXCEPT !.pc = "headless", !.mode = "headless"]
    /\ hcmds' = IF how = "setup_error" THEN <<>> ELSE hcmds
    /\ UNCHANGED handles

Connect ==
    /\ \E how \in {"ok", "setup_error", "permission_denied", "error"} : ConnectAs(how)
    /\ UNCHANGED notH

\* A live HardwareHandle sends a command: an error once the receiver is
\* dropped.
HandleSend ==
    /\ handles # {}
    /\ IF hb.command_rx
       THEN /\ Len(hcmds) < MaxCmds
            /\ \E c \in HardwareCommands : hcmds' = Append(hcmds, c)
            /\ UNCHANGED hb
       ELSE /\ hb' = [hb EXCEPT !.send_err = TRUE]
            /\ UNCHANGED hcmds
    /\ UNCHANGED <<handles, notH>>

\* HardwareHandle::clone.
HandleClone ==
    /\ handles # {}
    /\ \E h \in HandleIds \ handles : handles' = handles \cup {h}
    /\ UNCHANGED <<hb, hcmds, notH>>

\* A HardwareHandle is dropped.
HandleDrop ==
    /\ \E h \in handles : handles' = handles \ {h}
    /\ UNCHANGED <<hb, hcmds, notH>>

\* run_headless takes the next command from command_rx.iter() and ignores
\* it.
HeadlessDiscard ==
    /\ hb.pc = "headless"
    /\ hcmds # <<>>
    /\ hcmds' = Tail(hcmds)
    /\ hb' = [hb EXCEPT !.discarded = TRUE]
    /\ UNCHANGED <<handles, notH>>

\* command_rx.iter() ends; run_headless drops the event sender and returns.
HeadlessEnd ==
    /\ hb.pc = "headless"
    /\ iter_ends(hcmds, handles)
    /\ hb' = Returns(hb)
    /\ UNCHANGED <<handles, hcmds, notH>>

\* One iteration of the loop with a device: the queued commands are drained
\* and rendered, and the read sends an event, sends nothing, or fails.
DeviceLoop ==
    /\ hb.pc = "device"
    /\ \E read \in {"input", "no_data", "hid_error"} :
         hb' = CASE read = "input" ->
                      [hb EXCEPT !.rendered = @ \/ hcmds # <<>>, !.events_sent = TRUE]
                 [] read = "no_data" ->
                      [hb EXCEPT !.rendered = @ \/ hcmds # <<>>]
                 [] read = "hid_error" ->
                      Returns([hb EXCEPT !.rendered = @ \/ hcmds # <<>>])
    /\ hcmds' = <<>>
    /\ UNCHANGED <<handles, notH>>

HNext ==
    \/ Enumerate
    \/ Connect
    \/ HandleSend
    \/ HandleClone
    \/ HandleDrop
    \/ HeadlessDiscard
    \/ HeadlessEnd
    \/ DeviceLoop

----------------------------------------------------------------------------
(* Hardware backend: select_device and the connect loop *)

\* Strings are sequences of ASCII codes.
to_ascii_lowercase(s) ==
    [i \in 1..Len(s) |-> IF s[i] \in 65..90 THEN s[i] + 32 ELSE s[i]]

contains(s, t) ==
    \E i \in 0..(Len(s) - Len(t)) : SubSeq(s, i + 1, i + Len(t)) = t

\* "permission denied"
PermissionDenied == <<112, 101, 114, 109, 105, 115, 115, 105, 111, 110, 32, 100, 101, 110, 105, 101, 100>>

\* Messages of the errors StreamDeck::connect returns: "open failed:
\* Permission denied", "PERMISSION DENIED", "permission denied",
\* "no such device", "permission  denied?" (two spaces).
ConnectMessages ==
    {<<111, 112, 101, 110, 32, 102, 97, 105, 108, 101, 100, 58, 32, 80, 101, 114, 109, 105, 115, 115, 105, 111, 110, 32, 100, 101, 110, 105, 101, 100>>,
     <<80, 69, 82, 77, 73, 83, 83, 73, 79, 78, 32, 68, 69, 78, 73, 69, 68>>,
     <<112, 101, 114, 109, 105, 115, 115, 105, 111, 110, 32, 100, 101, 110, 105, 101, 100>>,
     <<110, 111, 32, 115, 117, 99, 104, 32, 100, 101, 118, 105, 99, 101>>,
     <<112, 101, 114, 109, 105, 115, 115, 105, 111, 110, 32, 32, 100, 101, 110, 105, 101, 100, 63>>}

ConnectErrors == [type : {"HidError", "BadData"}, msg : ConnectMessages]

\* is_permission_denied, were the message compared as it is written.
is_permission_denied_case_sensitive(err) ==
    err.type = "HidError" /\ contains(err.msg, PermissionDenied)

is_permission_denied(err) ==
    err.type = "HidError" /\ contains(to_ascii_lowercase(err.msg), PermissionDenied)

\* Seconds slept before the connect is tried again.
RetrySecs == 2

\* What list_devices returns: up to MaxDevices pairs of kind and serial.
Device == [kind : {"Plus", "Mini"}, serial : {"A", "B"}]

DeviceLists == UNION {[1..n -> Device] : n \in 0..MaxDevices}

\* config.serial.
SerialFilters == {[some |-> FALSE, v |-> "A"]} \cup [some : {TRUE}, v : {"A", "B"}]

NoDevice == [ok |-> FALSE, kind |-> "none", serial |-> "none"]

\* devices.iter().find(..): the first device a serial filter lets through.
FindPlus(devices, serial) ==
    LET hits == {i \in 1..Len(devices) :
                    /\ devices[i].kind = "Plus"
                    /\ serial.some => devices[i].serial = serial.v}
    IN IF hits = {} THEN NoDevice
       ELSE [ok |-> TRUE, kind |-> devices[SetMin(hits)].kind,
             serial |-> devices[SetMin(hits)].serial]

select_device(devices, serial) ==
    IF ~\E i \in 1..Len(devices) : devices[i].kind = "Plus" THEN NoDevice
    ELSE FindPlus(devices, serial)

NoError == [type |-> "none", msg |-> <<>>]

\* History of the start-up: what select_device returned, the connect calls
\* made, the retries slept through and the error of the last connect.
Starting(devices, serial) ==
    [devices |-> devices, serial |-> serial, selected |-> NoDevice,
     connects |-> 0, slept |-> 0, err |-> NoError]

KInit == \E devices \in DeviceLists, serial \in SerialFilters :
            conn = Starting(devices, serial)

KFixed == conn = Starting(<<>>, [some |-> FALSE, v |-> "A"])

\* run_backend up to select_device, for the devices listed.
SelectDevice ==
    /\ \E hid_ok \in BOOLEAN :
         LET selected == select_device(conn.devices, conn.serial) IN
         /\ EnumerateAs(IF ~hid_ok THEN "hidapi_error"
                        ELSE IF selected.ok THEN "device" ELSE "no_device")
         /\ conn' = [conn EXCEPT !.selected = IF hid_ok THEN selected ELSE NoDevice]
    /\ UNCHANGED notHK

\* StreamDeck::connect succeeds; set_brightness and flush_strip follow.
ConnectOk ==
    /\ \E setup_ok \in BOOLEAN : ConnectAs(IF setup_ok THEN "ok" ELSE "setup_error")
    /\ conn' = [conn EXCEPT !.connects = @ + 1, !.err = NoError]
    /\ UNCHANGED notHK

\* StreamDeck::connect fails: a permission error sleeps and goes round the
\* loop again, any other error enters headless mode.
ConnectErr ==
    /\ \E err \in ConnectErrors :
         /\ is_permission_denied(err) => conn.connects < MaxRetries
         /\ ConnectAs(IF is_permission_denied(err) THEN "permission_denied" ELSE "error")
         /\ conn' = [conn EXCEPT !.connects = @ + 1, !.err = err,
                                 !.slept = IF is_permission_denied(err)
                                           THEN @ + RetrySecs ELSE @]
    /\ UNCHANGED notHK

KNext ==
    \/ SelectDevice
    \/ ConnectOk
    \/ ConnectErr

----------------------------------------------------------------------------
(* TimerController *)

\* util::format_duration: minutes and seconds of total_secs.
format_duration(total_secs) == <<total_secs \div 60, total_secs % 60>>

\* The display TimerController::push_display sends: value and status.
timer_push_display(t) ==
    [t EXCEPT !.pushes = @ + 1,
              !.disp = [value |-> CASE t.state = "Running" -> format_duration(t.remaining)
                                    [] t.state = "Finished" -> <<0, 0>>
                                    [] t.state = "Setting" -> format_duration(t.configured),
                        status |-> CASE t.state = "Running" -> "run"
                                     [] t.state = "Finished" -> "done"
                                     [] t.state = "Setting" -> "set"]]

\* TimerController::new, were the default taken without the clamp.
TimerNew_default_unclamped(step0, min0, max0, default0) ==
    LET step1 == Max(step0, 1)
        min_bound == Min(min0, max0)
        max0_bound == Max(max0, min_bound)
        max_bound == IF max0_bound < step1 THEN step1 ELSE max0_bound
        fallback == Min(Max(min_bound, step1), max_bound)
        configured == IF default0 < fallback THEN fallback ELSE default0
    IN  timer_push_display(
            [configured |-> configured, remaining |-> configured, step |-> step1,
             min |-> min_bound, max |-> max_bound, state |-> "Setting",
             pushes |-> 0, disp |-> NoDisplay])

\* TimerController::new: the bounds are put in order, the default clamped.
TimerNew(step0, min0, max0, default0) ==
    LET step1 == Max(step0, 1)
        min_bound == Min(min0, max0)
        max0_bound == Max(max0, min_bound)
        max_bound == IF max0_bound < step1 THEN step1 ELSE max0_bound
        fallback == Min(Max(min_bound, step1), max_bound)
        clamped == clamp(default0, min_bound, max_bound)
        configured == IF clamped < fallback THEN fallback ELSE clamped
    IN  timer_push_display(
            [configured |-> configured, remaining |-> configured, step |-> step1,
             min |-> min_bound, max |-> max_bound, state |-> "Setting",
             pushes |-> 0, disp |-> NoDisplay])

timer_start(t) ==
    IF t.configured = 0 THEN t
    ELSE timer_push_display([t EXCEPT !.remaining = t.configured, !.state = "Running"])

reset_to_setting(t) ==
    timer_push_display([t EXCEPT !.remaining = t.configured, !.state = "Setting"])

finish(t) == timer_push_display([t EXCEPT !.remaining = 0, !.state = "Finished"])

\* TimerController::on_turn, were a turn to adjust a running timer too.
timer_turn_while_running(t, delta) ==
    IF delta = 0 THEN t
    ELSE LET value == clamp(t.configured + delta * t.step, t.min, t.max) IN
         timer_push_display([t EXCEPT !.configured = value, !.remaining = value,
                                      !.state = "Setting"])

\* TimerController::on_turn.
timer_turn(t, delta) ==
    IF delta = 0 THEN t
    ELSE IF t.state = "Running" THEN t
    ELSE LET value == clamp(t.configured + delta * t.step, t.min, t.max) IN
         timer_push_display([t EXCEPT !.configured = value, !.remaining = value,
                                      !.state = "Setting"])

\* TimerController::on_press, were a press of a stopped timer to start it.
timer_press_restarts(t) ==
    IF t.state \in {"Setting", "Finished"} THEN timer_start(t) ELSE reset_to_setting(t)

\* TimerController::on_press.
timer_press(t) ==
    IF t.state = "Setting" THEN timer_start(t) ELSE reset_to_setting(t)

\* TimerController::on_tick, were the tick that reaches zero to go on running.
timer_tick_late_finish(t) ==
    IF t.state # "Running" THEN t
    ELSE IF t.remaining = 0 THEN finish(t)
    ELSE timer_push_display([t EXCEPT !.remaining = Max(t.remaining - 1, 0)])

\* TimerController::on_tick.
timer_tick(t) ==
    IF t.state # "Running" THEN t
    ELSE IF t.remaining = 0 THEN finish(t)
    ELSE LET t1 == [t EXCEPT !.remaining = Max(t.remaining - 1, 0)] IN
         IF t1.remaining = 0 THEN finish(t1) ELSE timer_push_display(t1)

\* Turns of the timer encoder.
TimerDeltas == {-1, 0, 1}

\* The timer at the start of a call: no display pushed yet by this call.
TimerEntering(t) == [t EXCEPT !.pushes = 0]

\* History beside the timer: the call made, the timer it found, the value
\* the countdown was started with and the ticks since. n is 0 when no
\* countdown is followed: none was started, or a press or an adjusting turn
\* ended it. ticks counts up to one past the start value.
NoTimerCall(t) == [op |-> "new", delta |-> 0, before |-> t, n |-> 0, ticks |-> 0]

MInit ==
    /\ \E step0 \in {0, 2}, min0 \in {0, 1}, max0 \in {0, MaxSecs}, default0 \in {0, 3} :
         timer = TimerNew(step0, min0, max0, default0)
    /\ tm = NoTimerCall(timer)

\* Every configuration of step, bounds and default up to MaxSecs, the bounds
\* in either order and the default inside, below or above them.
MInitAny ==
    /\ \E step0 \in 0 .. MaxSecs, min0 \in 0 .. MaxSecs, max0 \in 0 .. MaxSecs,
          default0 \in 0 .. MaxSecs + 1 :
         timer = TimerNew(step0, min0, max0, default0)
    /\ tm = NoTimerCall(timer)

MFixed ==
    /\ timer = TimerNew(0, 0, 0, 0)
    /\ tm = NoTimerCall(timer)

TimerTurn ==
    /\ \E delta \in TimerDeltas :
         /\ timer' = timer_turn(TimerEntering(timer), delta)
         /\ tm' = [tm EXCEPT !.op = "on_turn", !.delta = delta, !.before = timer,
                             !.n = IF timer'.state = timer.state THEN @ ELSE 0,
                             !.ticks = IF timer'.state = timer.state THEN @ ELSE 0]
    /\ UNCHANGED notM

TimerPress ==
    /\ timer' = timer_press(TimerEntering(timer))
    /\ tm' = [op |-> "on_press", delta |-> 0, before |-> timer,
              n |-> IF timer'.state = "Running" THEN timer'.remaining ELSE 0,
              ticks |-> 0]
    /\ UNCHANGED notM

TimerTick ==
    /\ timer' = timer_tick(TimerEntering(timer))
    /\ tm' = [tm EXCEPT !.op = "on_tick", !.delta = 0, !.before = timer,
                        !.ticks = IF tm.n = 0 THEN 0 ELSE Min(@ + 1, tm.n + 1)]
    /\ UNCHANGED notM

MNext ==
    \/ TimerTurn
    \/ TimerPress
    \/ TimerTick

----------------------------------------------------------------------------
(* Specifications *)

InitBrightness == BInit /\ AFixed /\ PFixed /\ TFixed /\ XFixed /\ IFixed /\ CFixed /\ HFixed /\ UFixed /\ DFixed /\ MFixed /\ NFixed /\ KFixed

SpecBrightness == InitBrightness /\ [][BNext]_vars

InitNight ==
    BInit /\ NInit /\ AFixed /\ PFixed /\ TFixed /\ XFixed /\ IFixed /\ CFixed /\ HFixed /\ UFixed /\ DFixed /\ MFixed /\ KFixed

SpecNight == InitNight /\ [][NNext]_vars

\* The monitor's brightness is changed outside the program: its own buttons
\* or another DDC client.
MonitorChange ==
    /\ hw_level' \in HwLevels \ {hw_level}
    /\ UNCHANGED <<brightness, workers, ddc_available, blast, notB>>

\* Presses, polls and the worker threads against such a monitor.
MonitorNext ==
    \/ OnPress
    \/ OnTick
    \/ \E w \in WorkerIds : WorkerSetvcp(w)
    \/ \E w \in WorkerIds : WorkerGetvcp(w)
    \/ MonitorChange

SpecMonitor == InitBrightness /\ [][MonitorNext]_vars

InitTurn ==
    BInit /\ AFixed /\ PFixed /\ TFixed /\ XFixed /\ IFixed /\ CFixed /\ HFixed /\ UInit /\ DFixed /\ MFixed /\ NFixed /\ KFixed

SpecTurn == InitTurn /\ [][UNext]_vars

SpecTurnApply == InitTurn /\ [][UBNext]_vars

InitAvail == AInit /\ BFixed /\ PFixed /\ TFixed /\ XFixed /\ IFixed /\ CFixed /\ HFixed /\ UFixed /\ DFixed /\ MFixed /\ NFixed /\ KFixed

SpecAvail == InitAvail /\ [][ANext]_vars

\* A tracker created available: it is unavailable only after a
\* mark_unavailable.
InitMarked == InitAvail /\ available

SpecMarked == InitMarked /\ [][ANext]_vars

InitPlayerctl == PInit /\ BFixed /\ TFixed /\ XFixed /\ IFixed /\ CFixed /\ HFixed /\ UFixed /\ DFixed /\ MFixed /\ NFixed /\ KFixed

SpecPlayerctl == InitPlayerctl /\ [][PNext]_vars

InitToggle == TInit /\ BFixed /\ AFixed /\ PFixed /\ XFixed /\ IFixed /\ CFixed /\ HFixed /\ UFixed /\ DFixed /\ MFixed /\ NFixed /\ KFixed

SpecToggle == InitToggle /\ [][TNext]_vars

\* Presses against a PulseAudio that changes between them, without the ticker.
CycleNext ==
    \/ TgPress
    \/ PulseChange

SpecCycle == InitToggle /\ [][CycleNext]_vars

\* The ticker against a PulseAudio that changes between refreshes, without
\* presses.
RefreshNext ==
    \/ TgTick
    \/ PulseChange

SpecRefresh == InitToggle /\ [][RefreshNext]_vars

InitApp == XInit /\ BFixed /\ AFixed /\ PFixed /\ TFixed /\ IFixed /\ CFixed /\ HFixed /\ UFixed /\ DFixed /\ MFixed /\ NFixed /\ KFixed

SpecApp == InitApp /\ [][XNext]_vars

InitDispatch ==
    DInit /\ BFixed /\ AFixed /\ PFixed /\ TFixed /\ XFixed /\ IFixed /\ CFixed /\ HFixed /\ UFixed /\ MFixed /\ NFixed /\ KFixed

SpecDispatch == InitDispatch /\ [][DNext]_vars

InitTimer ==
    MInit /\ BFixed /\ AFixed /\ PFixed /\ TFixed /\ XFixed /\ IFixed /\ CFixed /\ HFixed /\ UFixed /\ DFixed /\ NFixed /\ KFixed

SpecTimer == InitTimer /\ [][MNext]_vars

InitTimerAny ==
    MInitAny /\ BFixed /\ AFixed /\ PFixed /\ TFixed /\ XFixed /\ IFixed /\ CFixed /\ HFixed /\ UFixed /\ DFixed /\ NFixed /\ KFixed

SpecTimerAny == InitTimerAny /\ [][MNext]_vars

InitConnect ==
    HInit /\ KInit /\ BFixed /\ AFixed /\ PFixed /\ TFixed /\ XFixed /\ IFixed /\ CFixed /\ UFixed /\ DFixed /\ MFixed /\ NFixed

SpecConnect == InitConnect /\ [][KNext]_vars

InitInput == IInit /\ BFixed /\ AFixed /\ PFixed /\ TFixed /\ XFixed /\ CFixed /\ HFixed /\ UFixed /\ DFixed /\ MFixed /\ NFixed /\ KFixed

SpecInput == InitInput /\ [][INext]_vars

SpecTwist == InitInput /\ [][TwistNext]_vars

InitCommands == CInit /\ BFixed /\ AFixed /\ PFixed /\ TFixed /\ XFixed /\ IFixed /\ HFixed /\ UFixed /\ DFixed /\ MFixed /\ NFixed /\ KFixed

SpecCommands == InitCommands /\ [][CNext]_vars

SpecMerge == InitCommands /\ [][MergeNext]_vars

InitBackend ==
    HInit /\ BFixed /\ AFixed /\ PFixed /\ TFixed /\ XFixed /\ IFixed /\ CFixed /\ UFixed /\ DFixed /\ MFixed /\ NFixed /\ KFixed

SpecBackend == InitBackend /\ [][HNext]_vars

----------------------------------------------------------------------------
(* Claims about the brightness controller *)

\* Worker threads that are inside set_brightness.
InSetBrightness == {w \in WorkerIds : workers[w].st \in {"running", "written"}}

\* C1: at most one apply worker of the controller is inside set_brightness
\* at any time; a commit made while one is in flight spawns no second one.
C1_AtMostOneWorkerInFlight == Cardinality(InSetBrightness) <= 1

\* C2: a poll that finds a successful worker result leaves the confirmed
\* level equal to the reported value, the dirty flag false and nothing in
\* flight. Stated for the calls that consist of the poll alone, on_tick and
\* on_release.
C2_PollSuccessConfirmsAndCleans ==
    (blast.op \in {"on_tick", "on_release"} /\ brightness.polled = "ok") =>
        /\ brightness.level = brightness.reported
        /\ ~brightness.pending_dirty
        /\ brightness.apply_inflight = None
        /\ brightness.apply_rx = None

\* C3: a poll that finds a failed worker result returns the controller to
\* Idle with the level confirmed before the failed commit, and spawns no
\* worker. Stated for on_tick and on_release.
C3_PollFailureKeepsLastConfirmed ==
    (blast.op \in {"on_tick", "on_release"} /\ brightness.polled = "err") =>
        /\ brightness.level = blast.confirmed
        /\ brightness.apply_inflight = None
        /\ brightness.apply_rx = None
        /\ brightness.spawned = None

\* The fields of the controller proper, without the per-call history.
Fields(c) ==
    <<c.level, c.pending_level, c.pending_dirty, c.apply_inflight, c.apply_rx,
      c.previous_level, c.available, c.disp>>

\* C15: in a run of turns with no press, on_turn spawns no worker, writes
\* nothing to the monitor and leaves the confirmed level alone; it changes
\* only the pending value, and when the pending value differs from the
\* confirmed level of an available controller it has pushed that value with
\* status "pending".
C15_TurnOnlyPreviews ==
    (blast.op = "on_turn" /\ turn.valid) =>
        /\ brightness.spawned = None
        /\ \A w \in WorkerIds : workers[w].st = "free"
        /\ hw_level = turn.hw
        /\ brightness.level = turn.before.level
        /\ brightness.previous_level = turn.before.previous_level
        /\ brightness.apply_rx = None
        /\ (brightness.available /\ brightness.pending_level # brightness.level) =>
              /\ brightness.pending_dirty
              /\ brightness.disp = [value |-> brightness.pending_level,
                                    status |-> "pending"]

\* Two turns in a row left a pending value away from the confirmed level.
C15_Witness ==
    /\ blast.op = "on_turn"
    /\ turn.valid
    /\ turn.delta # 0
    /\ turn.before.pending_dirty
    /\ brightness.pending_level # brightness.level
    /\ brightness.pending_level # turn.before.pending_level
    /\ brightness.disp.status = "pending"

\* C18: on_turn(delta) of an available controller with delta # 0 sets the
\* pending value to pending + delta * step clamped to [min, max], sets dirty
\* exactly when that differs from the confirmed level, and shows it;
\* on_turn(0) changes nothing.
C18_TurnArithmetic ==
    (blast.op = "on_turn" /\ turn.valid /\ brightness.available) =>
        IF turn.delta = 0
        THEN turn.before.available => Fields(brightness) = Fields(turn.before)
        ELSE LET expected == clamp(turn.before.pending_level + turn.delta * step,
                                   min_level, max_level) IN
             /\ brightness.pending_level = expected
             /\ brightness.pending_dirty = (expected # brightness.level)
             /\ brightness.disp.value = expected
             /\ brightness.pending_dirty => brightness.disp.status = "pending"

\* C16: on_press of an available controller that is Idle or Previewing (no
\* receiver held) spawns exactly one worker, for the committed target, and
\* the last display it pushed before returning shows that target with status
\* "apply".
C16_PressSpawnsOneWorker ==
    [][(OnPress /\ brightness.apply_rx = None /\ ddc_available) =>
          LET target == brightness'.spawned IN
          /\ target # None
          /\ brightness.pending_dirty => target = brightness.pending_level
          /\ brightness'.level = target
          /\ brightness'.apply_inflight = target
          /\ Cardinality({w \in WorkerIds : workers'[w] # workers[w]}) = 1
          /\ brightness'.apply_rx # None
          /\ workers[brightness'.apply_rx].st = "free"
          /\ workers'[brightness'.apply_rx].st = "running"
          /\ workers'[brightness'.apply_rx].target = target
          /\ brightness'.pushes = 1
          /\ brightness'.disp = [value |-> target, status |-> "apply"]]_vars

\* on_press has just returned with the only worker there is, and polled nothing.
C16_Witness ==
    /\ blast.op = "on_press"
    /\ brightness.polled = "none"
    /\ brightness.spawned # None
    /\ brightness.apply_rx # None
    /\ workers[brightness.apply_rx].st = "running"
    /\ Cardinality({w \in WorkerIds : workers[w].st # "free"}) = 1
    /\ brightness.disp.status = "apply"

\* C17: on_release or on_tick while the in-flight worker has not sent its
\* result leaves every field of the controller unchanged and pushes no
\* display.
C17_PollBeforeResultChangesNothing ==
    [][((OnTick \/ OnRelease)
          /\ brightness.apply_rx # None
          /\ workers[brightness.apply_rx].st \in {"running", "written"}) =>
          /\ Fields(brightness') = Fields(brightness)
          /\ brightness'.pushes = 0
          /\ workers' = workers]_vars

\* A poll returned while the worker it waits for was still at work.
C17_Witness ==
    /\ blast.op \in {"on_tick", "on_release"}
    /\ brightness.apply_rx # None
    /\ workers[brightness.apply_rx].st \in {"running", "written"}
    /\ brightness.apply_inflight # None
    /\ brightness.pushes = 0
    /\ brightness.polled = "none"

----------------------------------------------------------------------------
(* Claims about the dispatch loop's tick and button arms *)

\* The controllers of a chain, in call order.
Names(ch) == [i \in DOMAIN ch |-> ch[i].who]

\* C19: a tick calls on_tick once each on the timer, the brightness
\* controller, the audio toggle if there is one and the now-playing
\* controller if there is one, in that order, whatever any of them returns,
\* and the loop goes on.
C19_TickCallsEveryControllerInOrder ==
    served.last.type = "Tick" =>
        /\ Names(served.last.chain) =
              <<"timer", "brightness">>
              \o (IF served.cfg.audio_toggle THEN <<"audio_toggle">> ELSE <<>>)
              \o (IF served.cfg.now_playing THEN <<"now_playing">> ELSE <<>>)
        /\ served.pc = "loop"

\* A tick whose first call failed made all four calls and left the loop running.
C19_Witness ==
    /\ served.last.type = "Tick"
    /\ Len(served.last.chain) = 4
    /\ served.last.chain[1].res = "Err"
    /\ served.last.chain[4].who = "now_playing"
    /\ served.pc = "loop"

\* C20: a ButtonPressed goes to the audio toggle first and to the launchers
\* only when the toggle did not handle it; no controller is called after one
\* that handled the press; a press handled by none sends no command, starts
\* no worker and runs no external command.
C20_ButtonOfferedInPriorityOrder ==
    served.last.type = "ButtonPressed" =>
        LET ch == served.last.chain IN
        /\ served.cfg.audio_toggle => (ch # <<>> /\ ch[1].who = "audio_toggle")
        /\ \A i \in DOMAIN ch : i < Len(ch) => ~ch[i].handled
        /\ \A i \in DOMAIN ch :
              ch[i].who = "launchers" =>
                  /\ i = Len(ch)
                  /\ \A j \in 1..(i - 1) : ch[j].who = "audio_toggle"
        /\ Len(ch) <= 2
        /\ (served.cfg.launchers /\ \A i \in DOMAIN ch : ~ch[i].handled) =>
              (ch # <<>> /\ ch[Len(ch)].who = "launchers")
        /\ served.last.handled = (\E i \in DOMAIN ch : ch[i].handled)
        /\ ~served.last.handled =>
              /\ ~served.last.cmd
              /\ ~served.last.worker
              /\ served.last.sync = "none"

\* A press of a key that neither the toggle nor the launchers own.
C20_Witness ==
    /\ served.last.type = "ButtonPressed"
    /\ Names(served.last.chain) = <<"audio_toggle", "launchers">>
    /\ served.last.chain[2].res = "Ok"
    /\ ~served.last.handled
    /\ served.pc = "loop"

----------------------------------------------------------------------------
(* Claims about RetryableAvailability *)

\* The returns of try_acquire calls made wholly inside the current backoff
\* window (after mark_unavailable returned, no other mark_* call since).
Returned == {t \in Threads : epoch.open /\ thr[t].last.valid}

\* Before the deadline nothing changes the flag or the deadline, a call that
\* returns before the deadline returns (false, false), and (true, true) is
\* returned at most once.
BackoffHolds ==
    /\ (epoch.open /\ now < epoch.dl) => (~available /\ retry_after = epoch.dl)
    /\ \A t \in Returned : thr[t].last.early => thr[t].last.res = FF
    /\ epoch.open => epoch.tt <= 1
    /\ \A t \in Returned :
          (thr[t].last.late /\ thr[t].last.after) => thr[t].last.res = TF

\* C5 as stated: after mark_unavailable at t with backoff b, try_acquire
\* before t+b returns (false, false) and changes nothing, the first call at or
\* after t+b returns (true, true) and every other call made at or after t+b
\* returns (true, false).
C5_Original ==
    /\ BackoffHolds
    /\ \A t \in Returned : thr[t].last.late => thr[t].last.res \in {TT, TF}

\* C5 amended: try_acquire before the deadline returns (false, false) and
\* changes nothing; (true, true) is returned exactly once; a call that starts
\* after that return gets (true, false); a call made at or after the deadline
\* that races with the winning one may still return (false, false), but only
\* once the flag is already available and the deadline cleared.
C5_ExactlyOneRecovery ==
    /\ BackoffHolds
    /\ \A t \in Returned :
          (thr[t].last.late /\ thr[t].last.res = FF) => (available /\ retry_after = 0)
    /\ (/\ \A t \in Threads : thr[t].pc = "idle"
        /\ \E t \in Returned : thr[t].last.late) => epoch.tt = 1

\* Two callers raced at the deadline: one got (true, true), the other
\* (false, false).
C5_Witness ==
    \E t1, t2 \in Returned :
        /\ thr[t1].last.late /\ thr[t1].last.res = TT
        /\ thr[t2].last.late /\ thr[t2].last.res = FF

----------------------------------------------------------------------------
(* Claims about the playerctl backend *)

\* C35: on a tracker that is unavailable after a mark_unavailable, once
\* every mark_available, mark_unavailable and try_acquire call has returned
\* the retry deadline is not zero, however the calls interleaved.
C35_UnavailableKeepsDeadline ==
    ((\A t \in Threads : thr[t].pc = "idle") /\ ~available) => retry_after # 0

\* C4: polled on every tick, the backend does not stay without a probe once
\* the backoff after the failed probe has elapsed: at the latest the poll at
\* outage + backoff_secs invokes playerctl again.
C4_ProbeAfterBackoff ==
    np.outage # 0 => now < np.outage + backoff_secs

----------------------------------------------------------------------------
(* Claims about the audio output toggle *)

\* C6: after a failed set_default_sink, a press of a toggle button inside
\* the backoff window makes no backend call. Stated for the start of the
\* window: a press in the same second as the failed switch.
C6_NoSwitchInsideBackoff ==
    (tg.op = "press" /\ tg.handled /\ tg.prior = 0) => tg.requested = 0

\* C26: a press of a button with several outputs requests the output after
\* the active one in configured order, the first after the last; a press of
\* a button with one output requests that output whatever is active; a
\* press of a button with no output is not handled and calls no backend.
C26_PressCyclesWithinGroup ==
    [][\A b \in Buttons : TgPressOf(b) =>
          LET S == button_map(b) IN
          /\ S = {} =>
                /\ ~tg'.handled
                /\ tg'.requested = 0
                /\ pulse' = pulse
                /\ toggle' = ToggleEntering(toggle)
          /\ Cardinality(S) = 1 => (tg'.handled /\ tg'.requested \in S)
          /\ Cardinality(S) > 1 =>
                \A i \in S : toggle.state[i].active =>
                    /\ tg'.handled
                    /\ tg'.requested = IF i = SetMax(S) THEN SetMin(S)
                                       ELSE SetMin({j \in S : j > i})]_vars

\* The shared button was pressed while its last output was active, and the
\* first output of the group is the default sink now.
C26_Witness ==
    /\ tg.op = "press"
    /\ tg.handled
    /\ tg.requested = SetMin(button_map(2))
    /\ pulse.default = tg.requested
    /\ toggle.state[tg.requested].active
    /\ SetMax(button_map(2)) \in toggle.pushed

\* C32: when no output of a button with several outputs is active, a press
\* of the button requests the first output configured for it, whether or
\* not that output is available.
C32_NoActivePicksFirstConfigured ==
    [][\A b \in Buttons : TgPressOf(b) =>
          LET S == button_map(b) IN
          (Cardinality(S) > 1 /\ \A i \in S : ~toggle.state[i].active) =>
              tg'.requested = SetMin(S)]_vars

\* C36: for a button shared by several outputs, once a refresh has found
\* an output of the group active, the last icon sent for the button is the
\* icon of that output in its active state.
C36_SharedButtonShowsActiveOutput ==
    \A b \in Buttons :
        Cardinality(button_map(b)) > 1 =>
            \A i \in button_map(b) :
                toggle.state[i].active =>
                    toggle.icon[b] = [out |-> i, st |-> toggle.state[i]]

\* C39: a refresh from on_tick sends the icon of exactly the outputs whose
\* (available, active) state differs from the one the previous refresh
\* stored; a refresh that succeeds stores what PulseAudio reports, and a
\* refresh against a PulseAudio that reports what is stored sends no icon.
C39_RefreshSendsOnlyChanges ==
    [][TgTick =>
          /\ toggle'.pushed =
                {i \in Outputs : toggle'.state[i] # toggle.state[i]}
          /\ \A b \in Buttons :
                button_map(b) \cap toggle'.pushed = {} =>
                    toggle'.icon[b] = toggle.icon[b]
          /\ ~toggle'.err => toggle'.state = SinkStates(pulse')
          /\ toggle.state = SinkStates(pulse) => toggle'.pushed = {}]_vars

\* A refresh sent the icon of some outputs and not of the others.
C39_Witness ==
    /\ tg.op = "tick"
    /\ ~toggle.err
    /\ toggle.pushed # {}
    /\ toggle.pushed # Outputs
    /\ toggle.state = SinkStates(pulse)

----------------------------------------------------------------------------
(* Claims about the dispatch loop *)

\* C7: a failure of a controller's backend call while an event is handled
\* never ends the dispatch loop: run is not left because a handler's backend
\* call failed.
C7_BackendFailureKeepsLoop ==
    ~(app.pc # "loop" /\ app.route = "handler_error" /\ app.cause = "backend")

\* C8: no controller call made by the dispatch loop runs a backend command
\* and waits for it on the dispatch thread.
C8_NoBackendCallOnDispatchThread == app.sync = "none"

\* C9: once run has returned, by whichever route, it has asked for the
\* clear, and the clear is the last request made on the command channel:
\* no controller command follows it.
C9_ClearAfterLastCommand ==
    app.pc # "loop" => (app.cleared /\ cmd.last = "clear")

\* run has returned because a launcher failed, after a controller had sent
\* a command, and the clear is queued behind it for the backend thread.
C9_Witness ==
    /\ app.pc = "returned"
    /\ app.route = "handler_error"
    /\ app.cause = "backend"
    /\ app.commanded
    /\ cmd.last = "clear"
    /\ cmd.pending

\* C10: when the backend thread ended on a read error, run leaves the loop
\* through the closed event channel and returns Ok after asking for the
\* clear.
C10_ReadErrorEndsRunOk ==
    (app.pc # "loop" /\ app.hw_at_exit = "read" /\ app.route # "shutdown") =>
        (app.route = "closed" /\ app.result = "Ok" /\ app.cleared)

----------------------------------------------------------------------------
(* Claims about handle_input *)

\* The events of the last call that concern key or encoder id.
EventsOf(types, id) == Count(emitted, types, id)

\* C11: a key or an encoder yields a Pressed event only on a report that
\* changes it from released to pressed, a Released event only on a change
\* from pressed to released, and nothing on a report that repeats its state;
\* so the Pressed events sent exceed the Released ones by one exactly while
\* it is reported pressed.
C11_PressReleaseOnlyOnChange ==
    /\ input.kind = "ButtonStateChange" =>
         /\ \A i \in KeyIds :
              /\ EventsOf({"ButtonPressed"}, i - 1) =
                   IF i <= Len(input.report) /\ ~input.keys[i] /\ input.report[i]
                   THEN 1 ELSE 0
              /\ EventsOf({"ButtonReleased"}, i - 1) =
                   IF i <= Len(input.report) /\ input.keys[i] /\ ~input.report[i]
                   THEN 1 ELSE 0
         /\ \A k \in 1..Len(emitted) :
              emitted[k].type \in {"ButtonPressed", "ButtonReleased"}
    /\ input.kind = "EncoderStateChange" =>
         /\ \A i \in EncIds :
              /\ EventsOf({"EncoderPressed"}, i) =
                   IF i <= Len(input.report) /\ ~input.encs[i] /\ input.report[i]
                   THEN 1 ELSE 0
              /\ EventsOf({"EncoderReleased"}, i) =
                   IF i <= Len(input.report) /\ input.encs[i] /\ ~input.report[i]
                   THEN 1 ELSE 0
         /\ \A k \in 1..Len(emitted) :
              emitted[k].type \in {"EncoderPressed", "EncoderReleased"}
    /\ \A i \in KeyIds : hist.key_bal[i] = IF hist.keys[i] THEN 1 ELSE 0
    /\ \A i \in EncIds : hist.enc_bal[i] = IF hist.encs[i] THEN 1 ELSE 0

\* A report repeats "pressed" for a key that was already reported pressed
\* and releases another key: one Released event, none for the held key.
C11_Witness ==
    /\ input.kind = "ButtonStateChange"
    /\ \E i, j \in 1..Len(input.report) :
         /\ input.keys[i] /\ input.report[i]
         /\ EventsOf({"ButtonPressed", "ButtonReleased"}, i - 1) = 0
         /\ input.keys[j] /\ ~input.report[j]
         /\ EventsOf({"ButtonReleased"}, j - 1) = 1

\* The encoders of a twist report with a nonzero delta, in report order.
RECURSIVE NonZero(_, _)
NonZero(deltas, i) ==
    IF i > Len(deltas) \/ i > NumEncoders THEN <<>>
    ELSE (IF deltas[i] # 0 THEN <<i>> ELSE <<>>) \o NonZero(deltas, i + 1)

\* C12: a twist report yields exactly one EncoderTurned event per nonzero
\* delta of the first four encoders, in report order, each with the
\* encoder's id and the delta's value, and none for a zero delta.
C12_OneTurnPerNonZeroDelta ==
    input.kind = "EncoderTwist" =>
        LET nz == NonZero(input.report, 1) IN
        /\ Len(emitted) = Len(nz)
        /\ \A k \in 1..Len(nz) :
             /\ emitted[k].type = "EncoderTurned"
             /\ emitted[k].id = nz[k]
             /\ emitted[k].delta = i8_value(input.report[nz[k]])

\* A report with a zero delta between a negative and a positive one.
C12_Witness ==
    /\ input.kind = "EncoderTwist"
    /\ Len(emitted) = 2
    /\ emitted[1].delta = -3
    /\ emitted[2].delta = 3
    /\ emitted[2].id > emitted[1].id + 1

\* C22: a read that fails with BadData leaves the press states of keys and
\* encoders and the display and icon slots as they were, sends no event, and
\* the loop reads again.
C22_BadDataIsIgnored ==
    [][(InputError /\ input'.kind = "BadData") =>
          /\ encoder_press_state' = encoder_press_state
          /\ button_press_state' = button_press_state
          /\ displays' = displays
          /\ button_icons' = button_icons
          /\ emitted' = <<>>
          /\ input'.res = "Ok"]_vars

\* A malformed report arrived while a key and an encoder were held down.
C22_Witness ==
    /\ input.kind = "BadData"
    /\ input.res = "Ok"
    /\ emitted = <<>>
    /\ button_press_state[1]
    /\ encoder_press_state[2]

----------------------------------------------------------------------------
(* Claims about process_commands *)

\* C13: a process_commands iteration that drained no command, or only
\* commands carrying what their slot already held, renders nothing and
\* pushes nothing to the device.
C13_IdenticalCommandsRenderNothing ==
    (render.valid /\ (render.drained = 0 \/ render.same)) =>
        (~render.strip /\ render.buttons = <<>>)

\* The positions of q that address slot i with a command of the given type.
Addressed(q, type, i) == {k \in DOMAIN q : q[k].type = type /\ q[k].slot = i}

\* What a slot holds once q is merged into it in arrival order.
Merged(q, type, i, old) ==
    IF Addressed(q, type, i) = {} THEN old
    ELSE q[SetMax(Addressed(q, type, i))].payload

\* C21: after process_commands has drained the queue, every encoder display
\* slot and every key icon slot of the device holds the payload of the last
\* queued command addressed to it, and a slot no queued command addressed
\* holds what it held before.
C21_LastCommandWins ==
    [][ProcessCommands =>
          /\ DOMAIN displays' = EncIds
          /\ \A i \in EncIds :
                displays'[i] = Merged(command_rx, "UpdateEncoderDisplay", i, displays[i])
          /\ DOMAIN button_icons' = DOMAIN button_icons
          /\ \A i \in DOMAIN button_icons :
                button_icons'[i] =
                    Merged(command_rx, "UpdateButtonIcon", i, button_icons[i])]_vars

\* Two different displays for encoder One were drained in one iteration and
\* the slot holds the later one; encoder Three was left as it was.
C21_Witness ==
    /\ render.valid
    /\ \E j, k \in DOMAIN render.queue :
         /\ j < k
         /\ render.queue[j].type = "UpdateEncoderDisplay"
         /\ render.queue[k].type = "UpdateEncoderDisplay"
         /\ render.queue[j].slot = 1
         /\ render.queue[k].slot = 1
         /\ render.queue[j].payload # render.queue[k].payload
         /\ k = SetMax(Addressed(render.queue, "UpdateEncoderDisplay", 1))
         /\ displays[1] = render.queue[k].payload
    /\ displays[3] = 0

\* C31: an UpdateButtonIcon command whose index is not below the key count
\* changes no icon or display slot, is not added to the push batch and does
\* not end the loop: the commands queued after it still take effect, and an
\* iteration that drained only such commands pushes nothing and returns Ok.
C31_OutOfRangeIconIsDropped ==
    [][ProcessCommands =>
          LET q == command_rx
              past == {k \in DOMAIN q : /\ q[k].type = "UpdateButtonIcon"
                                        /\ q[k].slot \notin DOMAIN button_icons}
              rest == DOMAIN q \ past
          IN  past # {} =>
                /\ \A b \in DOMAIN render'.batches :
                      \A n \in DOMAIN render'.batches[b] :
                          render'.batches[b][n] \in DOMAIN button_icons
                /\ DOMAIN button_icons' = DOMAIN button_icons
                /\ \A i \in DOMAIN button_icons :
                      (\A k \in rest : q[k].type = "UpdateButtonIcon" => q[k].slot # i)
                          => button_icons'[i] = button_icons[i]
                /\ \A i \in EncIds :
                      (\A k \in rest : q[k].type = "UpdateEncoderDisplay" => q[k].slot # i)
                          => displays'[i] = displays[i]
                /\ \A k \in rest :
                      (\A j \in rest : (j > k /\ q[j].type = q[k].type) => q[j].slot # q[k].slot)
                          => IF q[k].type = "UpdateButtonIcon"
                             THEN button_icons'[q[k].slot] = q[k].payload
                             ELSE displays'[q[k].slot] = q[k].payload
                /\ rest = {} =>
                      /\ render'.res = "Ok"
                      /\ render'.strips = 0
                      /\ render'.batches = <<>>]_vars

\* An icon for an index past the keys was drained ahead of an icon for the
\* first key: the first key holds its icon and is the only one pushed.
C31_Witness ==
    /\ render.valid
    /\ render.res = "Ok"
    /\ Len(render.queue) = 2
    /\ render.queue[1].type = "UpdateButtonIcon"
    /\ render.queue[1].slot \notin DOMAIN button_icons
    /\ render.queue[2].type = "UpdateButtonIcon"
    /\ render.queue[2].slot = 1
    /\ button_icons[1] = render.queue[2].payload
    /\ render.batches = <<(<<1>>)>>

\* C30: one process_commands iteration calls flush_strip at most once, and
\* exactly once when a display command was drained; it pushes key icons in
\* at most one batch, whose indices are the in-range key indices updated in
\* this iteration, however many commands were drained.
C30_OneStripPushOneIconBatch ==
    render.valid =>
        LET q == render.queue
            shown == \E k \in DOMAIN q : q[k].type = "UpdateEncoderDisplay"
            keys == {q[k].slot : k \in
                        {n \in DOMAIN q : /\ q[n].type = "UpdateButtonIcon"
                                          /\ q[n].slot \in DOMAIN button_icons}}
        IN  /\ render.strips <= 1
            /\ (render.strips = 1) = shown
            /\ Len(render.batches) <= 1
            /\ \A b \in DOMAIN render.batches :
                  {render.batches[b][n] : n \in DOMAIN render.batches[b]} = keys
            /\ (render.res = "Ok" /\ keys # {}) => Len(render.batches) = 1
            /\ keys = {} => render.batches = <<>>

\* Two key updates and no display command were drained in one iteration:
\* no strip push, one batch with both.
C30_Witness ==
    /\ render.valid
    /\ render.drained >= 2
    /\ \A k \in DOMAIN render.queue : render.queue[k].type = "UpdateButtonIcon"
    /\ render.batches = <<render.buttons>>
    /\ Len(render.buttons) >= 2
    /\ render.strips = 0

\* C27: a press with no preview pending toggles night mode. With the
\* confirmed level above the night level it commits the night level;
\* otherwise it commits the remembered previous level, at least night
\* level + 1. So the press after one that left a level L for the night
\* level commits L again.
C27_PressTogglesNightMode ==
    toggled.such =>
        /\ toggled.level > night_level => toggled.target = night_level
        /\ toggled.level <= night_level =>
              toggled.target = Max(toggled.previous, night_level + 1)
        /\ toggled.prior # None => toggled.target = toggled.prior

\* C28: when the availability flag went false while a worker was in
\* flight, a poll that finds the worker's result still consumes it and
\* clears the in-flight state, and the controller pushes the placeholder
\* display (N/A, a status, progress 0); no on_turn or on_press made while
\* the backend is unavailable spawns a worker.
C28_UnavailablePollConsumesAndShowsPlaceholder ==
    [][((OnTurn \/ OnPress \/ OnRelease \/ OnTick) /\ ~ddc_available) =>
          /\ brightness'.spawned = None
          /\ try_recv(brightness, workers).kind = "result" =>
                /\ brightness'.polled # "none"
                /\ brightness'.apply_rx = None
                /\ brightness'.apply_inflight = None
                /\ try_recv(brightness, workers).res.ok =>
                      brightness'.level = try_recv(brightness, workers).res.v
                /\ brightness'.disp.status = "ddc disabled"
                /\ brightness'.disp.value = "N/A"
                /\ brightness'.progress = ZeroProgress
                /\ brightness'.pushes > 0]_vars

\* A tick polled the result of a worker that had found ddcutil failing: the
\* result is stored, nothing is in flight and the placeholder is shown.
C28_Witness ==
    /\ blast.op = "on_tick"
    /\ brightness.polled = "ok"
    /\ brightness.level = brightness.reported
    /\ ~ddc_available
    /\ ~brightness.available
    /\ brightness.apply_rx = None
    /\ brightness.disp.status = "ddc disabled"
    /\ brightness.progress = ZeroProgress

\* C33: once a poll has taken a worker's result and no worker is left running,
\* no result is left unpolled and no preview is pending, the confirmed level
\* of an available controller is the level last written to the monitor.
C33_ConfirmedIsLastWritten ==
    ( /\ ddc_available
      /\ brightness.polled = "ok"
      /\ brightness.apply_rx = None
      /\ ~brightness.pending_dirty
      /\ \A w \in WorkerIds : workers[w].st = "free" ) =>
        brightness.level = hw_level

\* C34: in every state the dirty flag is true exactly when the pending
\* level differs from the confirmed level.
C34_DirtyIffPendingDiffers ==
    brightness.pending_dirty <=>
        (brightness.pending_level # brightness.level)

\* C37: the confirmed level and the pending level of the controller lie in
\* [min_level, max_level] in every state.
C37_LevelsStayInRange ==
    /\ min_level <= brightness.level
    /\ brightness.level <= max_level
    /\ min_level <= brightness.pending_level
    /\ brightness.pending_level <= max_level

\* C40: the ddcutil availability flag never goes from unavailable to
\* available, and an on_turn or on_press made while it is unavailable
\* pushes the placeholder display and starts no worker.
C40_UnavailableIsPermanent ==
    [][/\ ~ddc_available => ~ddc_available'
       /\ (~ddc_available /\ (OnTurn \/ OnPress)) =>
             /\ brightness'.disp.status = "ddc disabled"
             /\ brightness'.progress = ZeroProgress
             /\ brightness'.pushes > 0
             /\ brightness'.spawned = None
             /\ \A w \in WorkerIds :
                   workers'[w].st = "running" => workers[w].st = "running"]_vars

\* A press polled the result of a worker, so the backend had been available,
\* found the backend unavailable, showed the placeholder and spawned nothing.
C40_Witness ==
    /\ blast.op = "on_press"
    /\ brightness.polled = "ok"
    /\ ~ddc_available
    /\ brightness.disp.status = "ddc disabled"
    /\ brightness.spawned = None
    /\ \A w \in WorkerIds : workers[w].st = "free"

----------------------------------------------------------------------------
(* Claims about the start-up of the backend thread *)

\* The connect errors that are permission errors: a HidError whose message
\* says "permission denied" in whatever case.
PermissionErrors ==
    [type : {"HidError"},
     msg : {<<111, 112, 101, 110, 32, 102, 97, 105, 108, 101, 100, 58, 32, 80, 101, 114, 109, 105, 115, 115, 105, 111, 110, 32, 100, 101, 110, 105, 101, 100>>,
            <<80, 69, 82, 77, 73, 83, 83, 73, 79, 78, 32, 68, 69, 78, 73, 69, 68>>,
            <<112, 101, 114, 109, 105, 115, 115, 105, 111, 110, 32, 100, 101, 110, 105, 101, 100>>}]

----------------------------------------------------------------------------
(* Claims about the timer *)

\* C23: while the timer is Running, on_turn(delta) for any delta changes
\* neither configured, remaining nor state and issues no display command.
C23_TurnIgnoredWhileRunning ==
    (tm.op = "on_turn" /\ tm.before.state = "Running") =>
        /\ timer.configured = tm.before.configured
        /\ timer.remaining = tm.before.remaining
        /\ timer.state = "Running"
        /\ timer.pushes = 0

\* A non-zero turn arrived while the countdown was running.
C23_Witness ==
    /\ tm.op = "on_turn"
    /\ tm.delta # 0
    /\ tm.before.state = "Running"
    /\ tm.before.remaining < tm.before.configured

\* C24: on_press in Setting with configured > 0 moves the timer to Running
\* with remaining = configured; on_press in Running or Finished moves it to
\* Setting with remaining = configured, and ticks then change nothing until
\* a further press.
C24_PressStartsOrResets ==
    /\ (tm.op = "on_press" /\ tm.before.state = "Setting" /\ tm.before.configured > 0) =>
            /\ timer.state = "Running"
            /\ timer.configured = tm.before.configured
            /\ timer.remaining = timer.configured
    /\ (tm.op = "on_press" /\ tm.before.state \in {"Running", "Finished"}) =>
            /\ timer.state = "Setting"
            /\ timer.configured = tm.before.configured
            /\ timer.remaining = timer.configured
    /\ (tm.op = "on_tick" /\ tm.before.state = "Setting") =>
            timer = TimerEntering(tm.before)

\* A press found the timer Finished and reset it.
C24_Witness ==
    /\ tm.op = "on_press"
    /\ tm.before.state = "Finished"
    /\ timer.state = "Setting"
    /\ timer.remaining > 0

\* C25: after a start with configured = n and no press since, the k-th tick
\* (k < n) leaves the timer Running with remaining = n - k, the n-th tick
\* moves it to Finished with remaining = 0, and further ticks leave it
\* Finished.
C25_CountdownReachesZeroAtNthTick ==
    tm.n > 0 =>
        /\ timer.configured = tm.n
        /\ IF tm.ticks < tm.n
           THEN timer.state = "Running" /\ timer.remaining = tm.n - tm.ticks
           ELSE timer.state = "Finished" /\ timer.remaining = 0

\* A countdown from at least 2 has finished and one more tick has passed.
C25_Witness ==
    /\ tm.n >= 2
    /\ tm.ticks = tm.n + 1
    /\ tm.op = "on_tick"
    /\ timer.state = "Finished"

\* C38: after construction and after every on_turn, on_press and on_tick,
\* min <= configured <= max and remaining <= configured; in Setting
\* remaining = configured, in Finished remaining = 0, and in Running
\* 0 < remaining <= configured.
C38_TimerStaysInBounds ==
    /\ timer.min <= timer.configured
    /\ timer.configured <= timer.max
    /\ timer.remaining <= timer.configured
    /\ timer.state = "Setting" => timer.remaining = timer.configured
    /\ timer.state = "Finished" => timer.remaining = 0
    /\ timer.state = "Running" =>
            (0 < timer.remaining /\ timer.remaining <= timer.configured)

\* A turn up found the timer Finished less than one step below max and set
\* it to max.
C38_Witness ==
    /\ tm.op = "on_turn"
    /\ tm.delta = 1
    /\ tm.before.state = "Finished"
    /\ tm.before.configured + tm.before.step > timer.max
    /\ tm.before.configured < timer.max
    /\ timer.configured = timer.max
    /\ timer.state = "Setting"

----------------------------------------------------------------------------
(* Claims about headless mode *)

\* C14: once the backend runs headless, no send through a HardwareHandle
\* fails, no command is rendered, no event is ever sent, and the event
\* sender is held for as long as a HardwareHandle is alive.
C14_HeadlessAcceptsAndStaysOpen ==
    hb.mode = "headless" =>
        /\ ~hb.send_err
        /\ ~hb.rendered
        /\ ~hb.events_sent
        /\ handles # {} => (hb.event_tx /\ hb.command_rx)

\* Headless, a command was discarded, the queue is empty again and a handle
\* is still alive: the thread waits with the event channel open.
C14_Witness ==
    /\ hb.mode = "headless"
    /\ hb.discarded
    /\ hcmds = <<>>
    /\ handles # {}
    /\ hb.event_tx

====
